---------------------------- MODULE Spec2Model ----------------------------
(***************************************************************************)
(* A model of the natural-language query service: the application state    *)
(* (AppState), the query engine (QueryEngine), schema discovery            *)
(* (SchemaDiscovery), the query cache (QueryCache) and the HTTP handlers   *)
(* of backend/api/routes.                                                  *)
(*                                                                         *)
(* Text is modelled as a sequence of one-character strings, so that        *)
(* lower-casing, substring tests, tokenisation and formatting are computed *)
(* character by character as the Python code computes them.  An optional   *)
(* value (Python's None) is a sequence of length at most one.              *)
(***************************************************************************)
EXTENDS Integers, Sequences, FiniteSets, TLC

VARIABLES
    \* AppState
    connection_string, engine, schema, cache, storage_dirs, vectorstore,
    query_history, jobs,
    \* the world around it
    now,            \* the monotonic clock, in seconds
    collection,     \* the persisted "employee_docs" collection of the vector store
    disk,           \* the uploads directory: file name -> content
    tasks,          \* upload handlers in flight and their background tasks
    resp,           \* the last HTTP response sent
    \* records kept for the properties
    call,           \* the last POST /api/query: its arguments and what it ran
    executions,     \* every cache-miss execution of process_query, in order
    written,        \* per cache key, the answer last computed for it and when
    connects,       \* connect-database calls so far: all, and those answered 200
    used,           \* how much of each bound has been used
    \* examination of single functions
    probe,          \* the arguments of the pure function under examination
    out             \* its result, once applied

app == <<connection_string, engine, schema, cache, storage_dirs, vectorstore,
         query_history, jobs>>
world == <<now, collection, disk, tasks>>
ghost == <<call, executions, written, connects>>
vars == <<app, world, resp, ghost, used, probe, out>>

---------------------------------------------------------------------------
(* Optional values.                                                        *)
None == <<>>
Some(x) == <<x>>
IsNone(o) == o = <<>>
Get(o) == o[1]
\* Python's "a or b" on optional values
OrElse(a, b) == IF IsNone(a) THEN b ELSE a

---------------------------------------------------------------------------
(* Text.                                                                   *)
UpperLetters == <<"A","B","C","D","E","F","G","H","I","J","K","L","M","N","O","P","Q","R","S","T","U","V","W","X","Y","Z">>
LowerLetters == <<"a","b","c","d","e","f","g","h","i","j","k","l","m","n","o","p","q","r","s","t","u","v","w","x","y","z">>
Digits == <<"0","1","2","3","4","5","6","7","8","9">>

Range(s) == {s[i] : i \in 1..Len(s)}

\* str.lower() on one character
LowerChar(c) ==
    IF c \in Range(UpperLetters)
    THEN LowerLetters[CHOOSE i \in 1..Len(UpperLetters) : UpperLetters[i] = c]
    ELSE c

\* str.lower()
lower(s) == [i \in 1..Len(s) |-> LowerChar(s[i])]

\* Python's "needle in hay" on strings
Contains(hay, needle) ==
    \E i \in 0..(Len(hay) - Len(needle)) :
        \A j \in 1..Len(needle) : hay[i + j] = needle[j]

\* any(k in q for k in keywords)
AnyIn(keywords, q) == \E i \in 1..Len(keywords) : Contains(q, keywords[i])

\* the character class [a-zA-Z_]
IsWordChar(c) == c \in Range(UpperLetters) \cup Range(LowerLetters) \cup {"_"}

\* the maximal runs of s over the positions in keep, in order
RunsOf(s, keep) ==
    LET starts == {i \in keep : (i - 1) \notin keep}
        endOf(i) == CHOOSE j \in keep :
                        /\ j >= i
                        /\ (j + 1) \notin keep
                        /\ \A k \in i..j : k \in keep
        nth(k) == CHOOSE i \in starts : Cardinality({x \in starts : x < i}) = k - 1
    IN  [k \in 1..Cardinality(starts) |-> SubSeq(s, nth(k), endOf(nth(k)))]

\* re.findall(r"[a-zA-Z_]+", s): the maximal runs of word characters, in order
FindAllWords(s) == RunsOf(s, {i \in 1..Len(s) : IsWordChar(s[i])})

RECURSIVE JoinWith(_, _)
\* sep.join(parts)
JoinWith(sep, parts) ==
    IF Len(parts) = 0 THEN <<>>
    ELSE IF Len(parts) = 1 THEN parts[1]
    ELSE parts[1] \o sep \o JoinWith(sep, Tail(parts))

RECURSIVE NatStr(_)
NatStr(n) == IF n < 10 THEN <<Digits[n + 1]>> ELSE NatStr(n \div 10) \o <<Digits[(n % 10) + 1]>>

\* str(n) for an integer
IntStr(n) == IF n < 0 THEN <<"-">> \o NatStr(-n) ELSE NatStr(n)

Max(a, b) == IF a >= b THEN a ELSE b
Min(a, b) == IF a <= b THEN a ELSE b

\* all sequences over S of length at most n
SeqsUpTo(S, n) == UNION {[1..k -> S] : k \in 0..n}

---------------------------------------------------------------------------
(* QueryEngine.classify                                                    *)
doc_keywords == <<<<"r","e","s","u","m","e">>, <<"d","o","c","u","m","e","n","t">>, <<"p","o","l","i","c","y">>, <<"c","o","n","t","r","a","c","t">>, <<"r","e","v","i","e","w">>, <<"p","d","f">>, <<"d","o","c">>>>
sql_keywords == <<<<"c","o","u","n","t">>, <<"a","v","e","r","a","g","e">>, <<"a","v","g">>, <<"s","u","m">>, <<"l","i","s","t">>, <<"s","h","o","w">>, <<"w","h","o">>,
                  <<"e","m","p","l","o","y","e","e","s">>, <<"d","e","p","a","r","t","m","e","n","t">>>>

classify_doc_first(user_query) ==
    LET q == lower(user_query)
        is_doc == AnyIn(doc_keywords, q)
        is_sql == AnyIn(sql_keywords, q)
    IN  IF is_doc THEN "document"
        ELSE IF is_doc /\ is_sql THEN "hybrid"
        ELSE "sql"

classify(user_query) ==
    LET q == lower(user_query)
        is_doc == AnyIn(doc_keywords, q)
        is_sql == AnyIn(sql_keywords, q)
    IN  IF is_doc /\ is_sql THEN "hybrid"
        ELSE IF is_doc THEN "document"
        ELSE "sql"

---------------------------------------------------------------------------
(* Databases the service can be pointed at.  A connection string is an     *)
(* atom; what the relational engine holds behind it is a sequence of       *)
(* tables in the order the inspector lists them, each with its column      *)
(* names and its rows (a row is a sequence of cells, every cell rendered   *)
(* as text).  fuzzy gives, per role, what rapidfuzz's extractOne answers   *)
(* for the table's columns: the best candidate and its WRatio score.       *)
NoFuzzy == [match |-> <<>>, score |-> 0]
NoFuzzyRoles ==
    [name |-> NoFuzzy, salary |-> NoFuzzy, department |-> NoFuzzy,
     date |-> NoFuzzy, manager |-> NoFuzzy]

T_employees ==
    [name |-> <<"e","m","p","l","o","y","e","e","s">>,
     columns |-> <<<<"e","m","p","_","i","d">>, <<"f","u","l","l","_","n","a","m","e">>, <<"d","e","p","t","_","i","d">>, <<"a","n","n","u","a","l","_","s","a","l","a","r","y">>, <<"j","o","i","n","_","d","a","t","e">>>>,
     rows |-> << <<<<"1","0">>, <<"A","l","i","c","e"," ","S","m","i","t","h">>, <<"1">>, <<"1","2","0","0","0","0">>, <<"2","0","2","3","-","0","2","-","1","0">>>>,
                 <<<<"1","1">>, <<"B","o","b"," ","J","o","n","e","s">>, <<"1">>, <<"1","5","0","0","0","0">>, <<"2","0","2","6","-","0","1","-","2","0">>>>,
                 <<<<"1","2">>, <<"C","a","r","o","l"," ","W","h","i","t","e">>, <<"2">>, <<"1","1","0","0","0","0">>, <<"2","0","2","2","-","0","8","-","0","1">>>> >>,
     fuzzy |-> NoFuzzyRoles]

T_departments ==
    [name |-> <<"d","e","p","a","r","t","m","e","n","t","s">>,
     columns |-> <<<<"d","e","p","t","_","i","d">>, <<"d","e","p","t","_","n","a","m","e">>, <<"m","a","n","a","g","e","r","_","i","d">>>>,
     rows |-> << <<<<"1">>, <<"E","n","g","i","n","e","e","r","i","n","g">>, <<"1","0","0">>>>, <<<<"2">>, <<"H","R">>, <<"1","0","1">>>> >>,
     fuzzy |-> NoFuzzyRoles]

\* an employee-like table with a department column and no salary column
T_Staff ==
    [name |-> <<"S","t","a","f","f">>,
     columns |-> <<<<"N","a","m","e">>, <<"t","e","a","m">>>>,
     rows |-> << <<<<"B","o","b"," ","J","o","n","e","s">>, <<"o","p","s">>>>, <<<<"D","a","n","_","B","o">>, <<"l","a","b">>>> >>,
     fuzzy |-> NoFuzzyRoles]

\* a table whose name holds no employee synonym and that has no department column
T_orders ==
    [name |-> <<"o","r","d","e","r","s">>,
     columns |-> <<<<"i","d">>, <<"c","u","s","t","o","m","e","r">>>>,
     rows |-> << <<<<"1">>, <<"b","o","b">>>> >>,
     fuzzy |-> [NoFuzzyRoles EXCEPT !.name = [match |-> Some(<<"c","u","s","t","o","m","e","r">>), score |-> 80]]]

\* "emp" is a substring of "temp"
T_temp_log ==
    [name |-> <<"t","e","m","p","_","l","o","g">>,
     columns |-> <<<<"a","t">>, <<"r","e","a","d","i","n","g">>>>,
     rows |-> <<>>,
     fuzzy |-> NoFuzzyRoles]

Databases ==
    [hr     |-> [valid |-> TRUE, tables |-> <<T_departments, T_employees>>],
     staff  |-> [valid |-> TRUE, tables |-> <<T_Staff>>],
     orders |-> [valid |-> TRUE, tables |-> <<T_orders>>],
     empty  |-> [valid |-> TRUE, tables |-> <<>>],
     bad    |-> [valid |-> FALSE, tables |-> <<>>]]

ConnectionStrings == DOMAIN Databases

---------------------------------------------------------------------------
(* SchemaDiscovery                                                         *)
EMPLOYEE_SYNONYMS ==
    <<<<"e","m","p","l","o","y","e","e">>, <<"e","m","p","l","o","y","e","e","s">>, <<"e","m","p">>, <<"s","t","a","f","f">>, <<"p","e","r","s","o","n","n","e","l">>, <<"p","e","r","s","o","n">>, <<"p","e","o","p","l","e">>>>
DEPT_SYNONYMS == <<<<"d","e","p","t">>, <<"d","e","p","a","r","t","m","e","n","t">>, <<"d","i","v","i","s","i","o","n">>, <<"t","e","a","m">>>>
SALARY_SYNONYMS == <<<<"s","a","l","a","r","y">>, <<"c","o","m","p","e","n","s","a","t","i","o","n">>, <<"p","a","y">>, <<"p","a","y","_","r","a","t","e">>, <<"a","n","n","u","a","l","_","s","a","l","a","r","y">>>>
NAME_SYNONYMS == <<<<"n","a","m","e">>, <<"f","u","l","l","_","n","a","m","e">>, <<"e","m","p","l","o","y","e","e","_","n","a","m","e">>>>
DATE_SYNONYMS == <<<<"j","o","i","n","_","d","a","t","e">>, <<"h","i","r","e","d","_","o","n">>, <<"s","t","a","r","t","_","d","a","t","e">>>>
MANAGER_SYNONYMS == <<<<"m","a","n","a","g","e","r">>, <<"m","a","n","a","g","e","r","_","i","d">>, <<"h","e","a","d","_","i","d">>, <<"r","e","p","o","r","t","s","_","t","o">>>>

FuzzyCutoff == 75

\* best_match: extractOne's answer, kept when its score reaches the cutoff
best_match(found, candidates) ==
    IF Len(candidates) = 0 THEN None
    ELSE IF ~IsNone(found.match) /\ found.score >= FuzzyCutoff THEN found.match
    ELSE None

\* the first synonym, then the first candidate, with the synonym in the
\* lower-cased candidate; otherwise the fuzzy match
best_match_from_list(synonyms, candidates, found) ==
    LET hits == {<<i, j>> \in (1..Len(synonyms)) \X (1..Len(candidates)) :
                    Contains(lower(candidates[j]), synonyms[i])}
        first == CHOOSE h \in hits :
                    \A g \in hits : h[1] < g[1] \/ (h[1] = g[1] /\ h[2] <= g[2])
    IN  IF hits # {} THEN Some(candidates[first[2]])
        ELSE best_match(found, candidates)

_find_tables_case_sensitive(tables, synonyms) ==
    SelectSeq(tables, LAMBDA t : AnyIn(synonyms, t))

\* _find_tables: the tables whose lower-cased name contains a synonym
_find_tables(tables, synonyms) ==
    SelectSeq(tables, LAMBDA t : AnyIn(synonyms, lower(t)))

\* the per-table column roles of analyze_database
column_map(t) ==
    [name |-> OrElse(best_match_from_list(NAME_SYNONYMS, t.columns, t.fuzzy.name),
                     IF Len(t.columns) > 0 THEN Some(t.columns[1]) ELSE None),
     salary |-> best_match_from_list(SALARY_SYNONYMS, t.columns, t.fuzzy.salary),
     department |-> best_match_from_list(DEPT_SYNONYMS, t.columns, t.fuzzy.department),
     date |-> best_match_from_list(DATE_SYNONYMS, t.columns, t.fuzzy.date),
     manager |-> best_match_from_list(MANAGER_SYNONYMS, t.columns, t.fuzzy.manager)]

\* analyze_database on a database that answers: tables in the inspector's
\* order (the keys of schema["tables"]), their columns, and the hints
analyze_database(db_tables) ==
    LET names == [i \in 1..Len(db_tables) |-> db_tables[i].name]
    IN  [tables |-> names,
         columns |-> [i \in 1..Len(db_tables) |-> db_tables[i].columns],
         hints |-> [employee_tables |-> _find_tables(names, EMPLOYEE_SYNONYMS),
                    department_tables |-> _find_tables(names, DEPT_SYNONYMS),
                    column_maps |-> [i \in 1..Len(db_tables) |-> column_map(db_tables[i])]]]

\* the position of a table in schema["tables"]
TableIndex(sch, table) == CHOOSE i \in 1..Len(sch.tables) : sch.tables[i] = table

EmptyColumnMap == [absent |-> TRUE]

\* map_natural_language_to_schema: the query's tokens are computed and not used
map_natural_language_to_schema(query, sch) ==
    LET tokens == FindAllWords(lower(query))
        employee_candidates ==
            IF Len(sch.hints.employee_tables) > 0
            THEN sch.hints.employee_tables ELSE sch.tables
        main_table ==
            IF Len(employee_candidates) > 0 THEN Some(employee_candidates[1]) ELSE None
    IN  [table |-> main_table,
         columns |-> IF IsNone(main_table) THEN EmptyColumnMap
                     ELSE sch.hints.column_maps[TableIndex(sch, Get(main_table))]]

---------------------------------------------------------------------------
(* The relational engine, as far as the generated statements need it.      *)

\* code-point order of the characters that occur in cells
CodeOrder == <<" ","%","'","(",")","*",",","-",".","/","0","1","2","3","4","5","6","7","8","9",":","=","A","B","C","D","E","F","G","H","I","J","K","L","M","N","O","P","Q","R","S","T","U","V","W","X","Y","Z","_","a","b","c","d","e","f","g","h","i","j","k","l","m","n","o","p","q","r","s","t","u","v","w","x","y","z","|">>
CodePoint(c) == CHOOSE i \in 1..Len(CodeOrder) : CodeOrder[i] = c

RECURSIVE TextLess(_, _)
TextLess(a, b) ==
    IF Len(b) = 0 THEN FALSE
    ELSE IF Len(a) = 0 THEN TRUE
    ELSE IF a[1] = b[1] THEN TextLess(Tail(a), Tail(b))
    ELSE CodePoint(a[1]) < CodePoint(b[1])

RECURSIVE ParseNat(_)
ParseNat(ds) ==
    IF Len(ds) = 0 THEN 0
    ELSE 10 * ParseNat(SubSeq(ds, 1, Len(ds) - 1))
         + ((CHOOSE i \in 1..10 : Digits[i] = ds[Len(ds)]) - 1)

IsNatText(ds) == Len(ds) > 0 /\ \A i \in 1..Len(ds) : ds[i] \in Range(Digits)

\* the blank-separated words of a statement
SqlWords(s) == RunsOf(s, {i \in 1..Len(s) : s[i] # " "})

RECURSIVE LikeMatch(_, _)
\* SQL LIKE: % matches any run, _ any one character, letters without case
LikeMatch(text, pat) ==
    IF Len(pat) = 0 THEN Len(text) = 0
    ELSE IF pat[1] = "%"
         THEN \E k \in 0..Len(text) : LikeMatch(SubSeq(text, k + 1, Len(text)), Tail(pat))
    ELSE IF Len(text) = 0 THEN FALSE
    ELSE /\ pat[1] = "_" \/ LowerChar(pat[1]) = LowerChar(text[1])
         /\ LikeMatch(Tail(text), Tail(pat))

\* ORDER BY: before holds the pairs <<i, j>> of positions with row i ordered
\* strictly ahead of row j; rows that tie keep their order
OrderBy(rows, before) ==
    LET n == Len(rows)
        pos(i) == 1 + Cardinality({j \in 1..n :
                        <<j, i>> \in before \/ (<<i, j>> \notin before /\ j < i)})
    IN  [k \in 1..n |-> rows[CHOOSE i \in 1..n : pos(i) = k]]

RECURSIVE SumNat(_)
SumNat(ns) == IF Len(ns) = 0 THEN 0 ELSE ns[1] + SumNat(Tail(ns))

RECURSIVE Distinct(_)
\* the values of a sequence, each once, in order of first appearance
Distinct(xs) ==
    IF Len(xs) = 0 THEN <<>>
    ELSE LET rest == Distinct(SubSeq(xs, 1, Len(xs) - 1))
             x == xs[Len(xs)]
         IN  IF x \in Range(rest) THEN rest ELSE Append(rest, x)

ColumnIndex(t, col) == CHOOSE i \in 1..Len(t.columns) : t.columns[i] = col
HasColumn(t, col) == \E i \in 1..Len(t.columns) : t.columns[i] = col

\* the year the engine's clock shows, for strftime('%Y','now')
CurrentYear == <<"2","0","2","6">>

\* the trailing LIMIT n [OFFSET o] of a statement, if it has one
limit_offset(w, n) ==
    IF n >= 4 /\ lower(w[n - 3]) = <<"l","i","m","i","t">> /\ lower(w[n - 1]) = <<"o","f","f","s","e","t">>
       /\ IsNatText(w[n - 2]) /\ IsNatText(w[n])
    THEN Some([limit |-> ParseNat(w[n - 2]), offset |-> ParseNat(w[n])])
    ELSE IF n >= 2 /\ lower(w[n - 1]) = <<"l","i","m","i","t">> /\ IsNatText(w[n])
    THEN Some([limit |-> ParseNat(w[n]), offset |-> 0])
    ELSE None

\* the LIMIT and OFFSET a statement ends with, if any
Pagination(sql) == limit_offset(SqlWords(sql), Len(SqlWords(sql)))

window(rows, pg) ==
    IF IsNone(pg) THEN rows
    ELSE SubSeq(rows, Get(pg).offset + 1, Min(Len(rows), Get(pg).offset + Get(pg).limit))

Paginate(rows, sql) == window(rows, Pagination(sql))

SqlError(msg) == [ok |-> FALSE, error |-> msg, columns |-> <<>>, rows |-> <<>>]
SqlRows(cols, rows) == [ok |-> TRUE, error |-> "", columns |-> cols, rows |-> rows]

\* AVG(salary) of the rows of department x, as the exact ratio total / n
pay(t, d, a, x) ==
    [total |-> SumNat([i \in 1..Len(t.rows) |->
                          IF t.rows[i][d] = x THEN ParseNat(t.rows[i][a]) ELSE 0]),
     n |-> Cardinality({i \in 1..Len(t.rows) : t.rows[i][d] = x})]

\* ORDER BY average_salary DESC
by_average_desc(groups) ==
    OrderBy(groups, {p \in (1..Len(groups)) \X (1..Len(groups)) :
                        groups[p[1]].avg.total * groups[p[2]].avg.n
                            > groups[p[2]].avg.total * groups[p[1]].avg.n})

average_rows(ordered) ==
    [i \in 1..Len(ordered) |->
        <<ordered[i].dept,
          IntStr(ordered[i].avg.total) \o <<"/">> \o IntStr(ordered[i].avg.n)>>]

group_by(t, d, a, depts) ==
    [i \in 1..Len(depts) |-> [dept |-> depts[i], avg |-> pay(t, d, a, depts[i])]]

select_average(t, d, a) ==
    average_rows(by_average_desc(
        group_by(t, d, a, Distinct([i \in 1..Len(t.rows) |-> t.rows[i][d]]))))

\* ORDER BY the date column DESC
by_date_desc(hits, c) ==
    OrderBy(hits, {p \in (1..Len(hits)) \X (1..Len(hits)) :
                      TextLess(hits[p[2]][c], hits[p[1]][c])})

select_this_year(t, c) ==
    by_date_desc(SelectSeq(t.rows, LAMBDA r : SubSeq(r[c], 1, 4) = CurrentYear), c)

select_like(t, filters, params) ==
    SelectSeq(t.rows, LAMBDA r :
        \E i \in 1..Len(filters) :
            LikeMatch(lower(r[ColumnIndex(t, filters[i].column)]),
                      params[filters[i].param]))

\* conn.execute(text(sql), params): what the statement described by plan
\* selects from table t, cut by the statement's LIMIT and OFFSET
Execute(t, plan, sql, params) ==
    IF plan.kind = "average" /\ (IsNone(plan.salary) \/ ~HasColumn(t, Get(plan.salary)))
    THEN SqlError("no such column")
    ELSE IF plan.kind = "search"
            /\ \E i \in 1..Len(plan.filters) : plan.filters[i].param \notin DOMAIN params
    THEN SqlError("a value is required for bind parameter")
    ELSE SqlRows(
            CASE plan.kind = "count" -> <<<<"c","o","u","n","t">>>>
              [] plan.kind = "average" -> <<<<"d","e","p","a","r","t","m","e","n","t">>, <<"a","v","e","r","a","g","e","_","s","a","l","a","r","y">>>>
              [] OTHER -> t.columns,
            Paginate(
                CASE plan.kind = "count" -> << <<IntStr(Len(t.rows))>> >>
                  [] plan.kind = "average" ->
                        select_average(t, ColumnIndex(t, plan.department),
                                       ColumnIndex(t, Get(plan.salary)))
                  [] plan.kind = "this_year" ->
                        select_this_year(t, ColumnIndex(t, plan.date))
                  [] plan.kind = "search" -> select_like(t, plan.filters, params)
                  [] OTHER -> t.rows,
                sql))

---------------------------------------------------------------------------
(* QueryEngine: SQL generation                                             *)
PageSizeCap == 200

optimize_sql_query_unclamped(sql, page, page_size) ==
    LET ps == Min(PageSizeCap, page_size)
        offset == (page - 1) * ps
    IN  IF Contains(lower(sql), <<" ","l","i","m","i","t"," ">>) THEN sql
        ELSE sql \o <<" ","L","I","M","I","T"," ">> \o IntStr(ps) \o <<" ","O","F","F","S","E","T"," ">> \o IntStr(offset)

optimize_sql_query(sql, page, page_size) ==
    LET pg == Max(1, page)
        ps == Max(1, Min(PageSizeCap, page_size))
        offset == (pg - 1) * ps
    IN  IF Contains(lower(sql), <<" ","l","i","m","i","t"," ">>) THEN sql
        ELSE sql \o <<" ","L","I","M","I","T"," ">> \o IntStr(ps) \o <<" ","O","F","F","S","E","T"," ">> \o IntStr(offset)

\* str(x) of an optional column name inside an f-string
PyStr(o) == IF IsNone(o) THEN <<"N","o","n","e">> ELSE Get(o)

StopWords == {<<"s","h","o","w">>, <<"l","i","s","t">>, <<"m","e">>, <<"a","l","l">>}

\* f"%{tkn}%"
LikePattern(tkn) == <<"%">> \o tkn \o <<"%">>

\* dict item assignment: the later value replaces the earlier one
Bind(params, key, value) == (key :> value) @@ params

RECURSIVE like_loop(_, _, _, _)
\* the loop over tokens: the filters' text, what they select on, and params
like_loop(tokens, name_col, dept_col, acc) ==
    IF Len(tokens) = 0 THEN acc
    ELSE LET tkn == tokens[1]
             f1 == <<"L","O","W","E","R","(">> \o name_col \o <<")"," ","L","I","K","E"," ",":">> \o tkn
             withName == [acc EXCEPT
                            !.like_filters = Append(@, f1),
                            !.filters = Append(@, [column |-> name_col, param |-> tkn])]
             withDept ==
                IF IsNone(dept_col) THEN withName
                ELSE [withName EXCEPT
                        !.like_filters = Append(@, <<"L","O","W","E","R","(">> \o Get(dept_col)
                                                    \o <<")"," ","L","I","K","E"," ",":">> \o tkn \o <<"_","d">>),
                        !.filters = Append(@, [column |-> Get(dept_col),
                                               param |-> tkn \o <<"_","d">>]),
                        !.params = Bind(@, tkn \o <<"_","d">>, LikePattern(tkn))]
         IN  like_loop(Tail(tokens), name_col, dept_col,
                       [withDept EXCEPT !.params = Bind(@, tkn, LikePattern(tkn))])

NoParams == [k \in {} |-> <<>>]

\* _run_sql_query, lines 86-113: the statement, its parameters, and what it selects
build_sql(user_query, table, name_col, salary_col, dept_col, date_col) ==
    LET q == lower(user_query)
        has(w) == Contains(q, w)
    IN  IF has(<<"h","o","w"," ","m","a","n","y">>) \/ (has(<<"c","o","u","n","t">>) /\ has(<<"e","m","p","l","o","y","e","e","s">>))
        THEN [sql |-> <<"S","E","L","E","C","T"," ","C","O","U","N","T","(","*",")"," ","a","s"," ","c","o","u","n","t"," ","F","R","O","M"," ">> \o table,
              params |-> NoParams, plan |-> [kind |-> "count"]]
        ELSE IF has(<<"a","v","e","r","a","g","e">>) /\ (has(<<"s","a","l","a","r","y">>) \/ has(<<"p","a","y">>) \/ has(<<"c","o","m","p","e","n","s","a","t","i","o","n">>))
                /\ ~IsNone(dept_col)
        THEN [sql |-> <<"S","E","L","E","C","T"," ">> \o Get(dept_col) \o <<" ","a","s"," ","d","e","p","a","r","t","m","e","n","t",","," ","A","V","G","(">>
                      \o PyStr(salary_col) \o <<")"," ","a","s"," ","a","v","e","r","a","g","e","_","s","a","l","a","r","y"," ","F","R","O","M"," ">> \o table
                      \o <<" ","G","R","O","U","P"," ","B","Y"," ">> \o Get(dept_col) \o <<" ","O","R","D","E","R"," ","B","Y"," ","a","v","e","r","a","g","e","_","s","a","l","a","r","y"," ","D","E","S","C">>,
              params |-> NoParams,
              plan |-> [kind |-> "average", department |-> Get(dept_col),
                        salary |-> salary_col]]
        ELSE IF AnyIn(<<<<"h","i","r","e","d"," ","t","h","i","s"," ","y","e","a","r">>, <<"j","o","i","n","e","d"," ","t","h","i","s"," ","y","e","a","r">>, <<"h","i","r","e","d"," ","i","n">>, <<"j","o","i","n"," ","d","a","t","e">>>>, q)
        THEN IF ~IsNone(date_col)
             THEN [sql |-> <<"S","E","L","E","C","T"," ","*"," ","F","R","O","M"," ">> \o table \o <<" ","W","H","E","R","E"," ","s","t","r","f","t","i","m","e","(","'","%","Y","'",","," ">>
                           \o Get(date_col) \o <<")"," ","="," ","s","t","r","f","t","i","m","e","(","'","%","Y","'",",","'","n","o","w","'",")"," ","O","R","D","E","R"," ","B","Y"," ">>
                           \o Get(date_col) \o <<" ","D","E","S","C">>,
                   params |-> NoParams,
                   plan |-> [kind |-> "this_year", date |-> Get(date_col)]]
             ELSE [sql |-> <<"S","E","L","E","C","T"," ","*"," ","F","R","O","M"," ">> \o table \o <<" ","L","I","M","I","T"," ","1","0","0">>,
                   params |-> NoParams, plan |-> [kind |-> "all"]]
        ELSE LET tokens == SelectSeq(FindAllWords(q), LAMBDA t : t \notin StopWords)
                 built == like_loop(tokens, name_col, dept_col,
                                    [like_filters |-> <<>>, filters |-> <<>>,
                                     params |-> NoParams])
             IN  IF Len(built.like_filters) > 0
                 THEN [sql |-> <<"S","E","L","E","C","T"," ","*"," ","F","R","O","M"," ">> \o table \o <<" ","W","H","E","R","E"," ">>
                               \o JoinWith(<<" ","O","R"," ">>, built.like_filters),
                       params |-> built.params,
                       plan |-> [kind |-> "search", filters |-> built.filters]]
                 ELSE [sql |-> <<"S","E","L","E","C","T"," ","*"," ","F","R","O","M"," ">> \o table,
                       params |-> NoParams, plan |-> [kind |-> "all"]]

NoStatement == [sql |-> <<>>, params |-> NoParams, plan |-> [kind |-> "none"]]

\* _run_sql_query, lines 74-114: the main table, its column roles, the
\* statement and its pagination; raised is set where the code raises
prepare_sql(user_query, page, page_size, sch) ==
    LET mapping == map_natural_language_to_schema(user_query, sch)
        table == mapping.table
    IN  IF IsNone(table) \/ Get(table) = <<>>
        THEN [raised |-> TRUE, error |-> "Could not determine main table. Ensure database has an employee-like table.",
              table |-> <<>>, col_names |-> <<>>, stmt |-> NoStatement]
        ELSE LET i == TableIndex(sch, Get(table))
                 col_names == sch.columns[i]
                 hints == sch.hints.column_maps[i]
             IN  IF IsNone(hints.name) /\ Len(col_names) = 0
                 THEN [raised |-> TRUE, error |-> "list index out of range",
                       table |-> Get(table), col_names |-> col_names, stmt |-> NoStatement]
                 ELSE LET name_col == Get(OrElse(hints.name, Some(col_names[1])))
                          built == build_sql(user_query, Get(table), name_col,
                                             hints.salary, hints.department, hints.date)
                      IN  [raised |-> FALSE, error |-> "",
                           table |-> Get(table), col_names |-> col_names,
                           stmt |-> [built EXCEPT
                                       !.sql = optimize_sql_query(@, page, page_size)]]

\* the table of that name in the database behind the engine
LiveTable(db_tables, name) ==
    db_tables[CHOOSE i \in 1..Len(db_tables) : db_tables[i].name = name]

NoSqlResult == [columns |-> <<>>, rows |-> <<>>, page |-> 0, page_size |-> 0]

\* _run_sql_query: the result dictionary, or the exception's message
sql_result(prep, rs, page, page_size) ==
    IF ~rs.ok
    THEN [raised |-> TRUE, error |-> rs.error, result |-> NoSqlResult]
    ELSE [raised |-> FALSE, error |-> "",
          result |-> [columns |-> IF Len(rs.rows) > 0 THEN rs.columns
                                  ELSE prep.col_names,
                      rows |-> rs.rows,
                      page |-> page, page_size |-> page_size]]

execute_prepared(prep, db_tables, page, page_size) ==
    IF prep.raised
    THEN [raised |-> TRUE, error |-> prep.error, result |-> NoSqlResult]
    ELSE sql_result(prep,
                    Execute(LiveTable(db_tables, prep.table), prep.stmt.plan,
                            prep.stmt.sql, prep.stmt.params),
                    page, page_size)

_run_sql_query(user_query, page, page_size, sch, db_tables) ==
    execute_prepared(prepare_sql(user_query, page, page_size, sch),
                     db_tables, page, page_size)

---------------------------------------------------------------------------
(* QueryCache over cachetools.TTLCache: entries in order of last use, each *)
(* with the time it expires at.                                            *)
CacheTtl == 300
CacheMaxSize == 1000

NewQueryCache == [entries |-> <<>>, hits |-> 0, misses |-> 0]

\* TTLCache lookup: the entry of that key, if it has not expired
LiveEntry(c, key, t) ==
    LET at == {i \in 1..Len(c.entries) :
                  c.entries[i].key = key /\ t < c.entries[i].expires}
    IN  IF at = {} THEN None ELSE Some(c.entries[CHOOSE i \in at : TRUE])

\* QueryCache.get: the value or None, and the hit or miss counted
QueryCache_get(c, key, t) ==
    LET e == LiveEntry(c, key, t)
    IN  IF IsNone(e)
        THEN [value |-> None, cache |-> [c EXCEPT !.misses = @ + 1]]
        ELSE [value |-> Some(Get(e).value),
              cache |-> [c EXCEPT !.hits = @ + 1,
                                  !.entries = Append(SelectSeq(@, LAMBDA x : x.key # key),
                                                     Get(e))]]

QueryCache_set_no_store(c, key, value, t) == c

\* QueryCache.set: expired entries go, a full cache drops its oldest entry,
\* and the value is stored for CacheTtl seconds
QueryCache_set(c, key, value, t) ==
    LET kept == SelectSeq(c.entries, LAMBDA x : t < x.expires /\ x.key # key)
        room == IF Len(kept) >= CacheMaxSize THEN Tail(kept) ELSE kept
    IN  [c EXCEPT !.entries = Append(room, [key |-> key, value |-> value,
                                            expires |-> t + CacheTtl])]

\* QueryCache.stats
QueryCache_stats(c) == [hits |-> c.hits, misses |-> c.misses]

---------------------------------------------------------------------------
(* QueryEngine: document search and process_query                          *)

\* seq[a:b] in Python
PySlice(seq, a, b) ==
    LET n == Len(seq)
        norm(x) == IF x < 0 THEN Max(0, n + x) ELSE Min(x, n)
    IN  SubSeq(seq, norm(a) + 1, norm(b))

\* _search_documents: the retriever answers with the page_size best chunks
\* of the collection (its ranking is the collection's order) and refuses a
\* request for no results
_search_documents(vs, coll, user_query, page, page_size) ==
    IF IsNone(vs) THEN [raised |-> FALSE, error |-> "", results |-> <<>>, sources |-> <<>>]
    ELSE IF page_size <= 0
    THEN [raised |-> TRUE, error |-> "number of requested results must be positive",
          results |-> <<>>, sources |-> <<>>]
    ELSE LET found == SubSeq(coll, 1, Min(page_size, Len(coll)))
             start == (page - 1) * page_size
             docs == PySlice(found, start, start + page_size)
         IN  [raised |-> FALSE, error |-> "",
              results |-> [i \in 1..Len(docs) |->
                             [text |-> docs[i].text, metadata |-> docs[i].metadata]],
              sources |-> [i \in 1..Len(docs) |->
                             [metadata |-> docs[i].metadata, score |-> None]]]

\* f"{user_query}|{page}|{page_size}"
cache_key(user_query, page, page_size) ==
    user_query \o <<"|">> \o IntStr(page) \o <<"|">> \o IntStr(page_size)

HistoryLimit == 50

keep_first(history) == SubSeq(history, 1, Min(Len(history), HistoryLimit))

\* history[-50:]
keep_last(history) == SubSeq(history, Max(1, Len(history) - HistoryLimit + 1), Len(history))

NotRunSql == [raised |-> FALSE, error |-> "", result |-> NoSqlResult]
NotRunDocs == [raised |-> FALSE, error |-> "", results |-> <<>>, sources |-> <<>>]

route_all_to_sql(qtype, sql, docs) ==
    [ran |-> <<"sql">>,
     query_type |-> IF sql.raised THEN "error" ELSE qtype,
     results |-> IF sql.raised THEN [error |-> sql.error] ELSE sql.result,
     sources |-> <<>>]

route_partial_results(qtype, sql, docs) ==
    IF qtype = "document"
    THEN [ran |-> <<"documents">>,
          query_type |-> IF docs.raised THEN "error" ELSE qtype,
          results |-> IF docs.raised THEN [error |-> docs.error] ELSE docs.results,
          sources |-> IF docs.raised THEN <<>> ELSE docs.sources]
    ELSE IF qtype = "sql" \/ sql.raised
    THEN [ran |-> <<"sql">>,
          query_type |-> IF sql.raised THEN "error" ELSE qtype,
          results |-> IF sql.raised THEN [error |-> sql.error] ELSE sql.result,
          sources |-> <<>>]
    ELSE [ran |-> <<"sql", "documents">>, query_type |-> qtype,
          results |-> [table |-> sql.result,
                       documents |-> IF docs.raised THEN <<>> ELSE docs.results],
          sources |-> IF docs.raised THEN <<>> ELSE docs.sources]

\* process_query, lines 41-56: which of the two paths run, in which order,
\* and what the answer is made of; sql and docs are what the paths return
route(qtype, sql, docs) ==
    IF qtype = "document"
    THEN [ran |-> <<"documents">>,
          query_type |-> IF docs.raised THEN "error" ELSE qtype,
          results |-> IF docs.raised THEN [error |-> docs.error] ELSE docs.results,
          sources |-> IF docs.raised THEN <<>> ELSE docs.sources]
    ELSE IF qtype = "sql"
    THEN [ran |-> <<"sql">>,
          query_type |-> IF sql.raised THEN "error" ELSE qtype,
          results |-> IF sql.raised THEN [error |-> sql.error] ELSE sql.result,
          sources |-> <<>>]
    ELSE IF sql.raised
    THEN [ran |-> <<"sql">>, query_type |-> "error",
          results |-> [error |-> sql.error], sources |-> <<>>]
    ELSE IF docs.raised
    THEN [ran |-> <<"sql", "documents">>, query_type |-> "error",
          results |-> [error |-> docs.error], sources |-> <<>>]
    ELSE [ran |-> <<"sql", "documents">>, query_type |-> qtype,
          results |-> [table |-> sql.result, documents |-> docs.results],
          sources |-> docs.sources]

---------------------------------------------------------------------------
(* AppState                                                                *)
AppInit ==
    /\ connection_string = None
    /\ engine = None
    /\ schema = None
    /\ cache = None
    /\ storage_dirs = None
    /\ vectorstore = None
    /\ query_history = <<>>
    /\ jobs = <<>>

is_initialized == ~IsNone(engine) /\ ~IsNone(schema) /\ ~IsNone(cache)

WorldInit ==
    /\ now = 0
    /\ collection = <<>>
    /\ disk = [f \in {} |-> <<>>]
    /\ tasks = <<>>

NoCall == [made |-> FALSE]
NoProbe == [fn |-> "none"]
NotRun == [done |-> FALSE]

GhostInit ==
    /\ call = NoCall
    /\ executions = <<>>
    /\ written = [k \in {} |-> <<>>]
    /\ connects = [calls |-> 0, succeeded |-> 0]

SystemInit ==
    /\ AppInit
    /\ WorldInit
    /\ GhostInit
    /\ resp = [status |-> 0, of |-> "none"]
    /\ used = [queries |-> 0, connects |-> 0, ticks |-> 0, uploads |-> 0]

system == <<app, world, resp, ghost, used>>

---------------------------------------------------------------------------
(* POST /api/connect-database                                              *)

\* connect_database with set_connection: a connection string the inspector
\* cannot open is answered 400 with the state untouched; otherwise the
\* engine, the schema and a fresh cache are installed and then the storage
\* directories are made, which fails when storage_ok is false: that too is
\* answered 400, with the assignments made before it kept
\* what analyze_database finds behind each connection string that opens
Discovered == [c \in {x \in ConnectionStrings : Databases[x].valid} |->
                  analyze_database(Databases[c].tables)]

ConnectDatabase(conn, storage_ok) ==
    /\ connects' = [calls |-> connects.calls + 1,
                    succeeded |-> connects.succeeded
                        + IF Databases[conn].valid /\ storage_ok THEN 1 ELSE 0]
    /\ used' = [used EXCEPT !.connects = @ + 1]
    /\ IF ~Databases[conn].valid
       THEN /\ resp' = [status |-> 400, of |-> "connect-database"]
            /\ UNCHANGED <<app, world, call, executions, written>>
       ELSE /\ engine' = Some(conn)
            /\ connection_string' = Some(conn)
            /\ schema' = Some(Discovered[conn])
            /\ cache' = Some(NewQueryCache)
            /\ storage_dirs' = IF storage_ok THEN Some("data") ELSE storage_dirs
            /\ resp' = IF storage_ok
                       THEN [status |-> 200, of |-> "connect-database",
                             schema |-> Discovered[conn]]
                       ELSE [status |-> 400, of |-> "connect-database"]
            /\ UNCHANGED <<vectorstore, query_history, jobs, world,
                           call, executions, written>>
    /\ UNCHANGED <<probe, out>>

---------------------------------------------------------------------------
(* POST /api/query                                                         *)

\* what is known of the call: its arguments, the time, and the payload an
\* earlier call stored under its key, with the connect calls made until then
call_record(user_query, page, page_size, key) ==
    [made |-> TRUE, n |-> used.queries + 1, status |-> 200,
     ready |-> TRUE, connected |-> connects.succeeded > 0,
     user_query |-> user_query, page |-> page, page_size |-> page_size, at |-> now,
     connect_calls |-> connects.calls, indexed |-> Len(collection),
     earlier |-> IF key \in DOMAIN written THEN Some(written[key]) ELSE None]

\* process_query, lines 35-39: the cached payload is marked as a hit in place
serve_cached(user_query, page, page_size, key, got, payload) ==
    /\ cache' = Some([got.cache EXCEPT !.entries =
                        [i \in 1..Len(@) |->
                            IF @[i].key = key THEN [@[i] EXCEPT !.value = payload]
                            ELSE @[i]]])
    /\ resp' = [status |-> 200, of |-> "query", body |-> payload]
    /\ call' = call_record(user_query, page, page_size, key)
                  @@ [hit |-> TRUE, ran |-> <<>>, payload |-> payload]
    /\ UNCHANGED <<connection_string, engine, schema, storage_dirs, vectorstore,
                   query_history, jobs, world, executions, written>>

\* process_query, lines 58-70: payload, history entry, cache write; the
\* payload's performance entry (a duration) is left out
serve_fresh(user_query, page, page_size, key, got, qtype, sql, docs, ans) ==
    LET payload == [query_type |-> ans.query_type,
                    results |-> ans.results,
                    sources |-> ans.sources,
                    cache |-> [hit |-> FALSE] @@ QueryCache_stats(got.cache)]
        entry == [query |-> user_query, type |-> ans.query_type, ts |-> now]
    IN  /\ query_history' = keep_last(Append(query_history, entry))
        /\ cache' = Some(QueryCache_set(got.cache, key, payload, now))
        /\ resp' = [status |-> 200, of |-> "query", body |-> payload]
        /\ call' = call_record(user_query, page, page_size, key)
                      @@ [hit |-> FALSE, ran |-> ans.ran,
                          payload |-> payload, classified |-> qtype,
                          sql |-> IF ans.ran # <<"documents">> THEN sql ELSE NotRunSql,
                          docs |-> IF "documents" \in Range(ans.ran)
                                   THEN docs ELSE NotRunDocs]
        /\ executions' = Append(executions, entry)
        /\ written' = (key :> [payload |-> payload, at |-> now,
                               connect |-> connects.calls,
                               indexed |-> Len(collection)]) @@ written
        /\ UNCHANGED <<connection_string, engine, schema, storage_dirs,
                       vectorstore, jobs, world>>

\* process_query, lines 32-56: cache lookup, then the classified paths
execute_query(user_query, page, page_size, key, got, qtype, sql, docs) ==
    IF ~IsNone(got.value)
    THEN serve_cached(user_query, page, page_size, key, got,
                      [Get(got.value) EXCEPT !.cache.hit = TRUE])
    ELSE serve_fresh(user_query, page, page_size, key, got, qtype, sql, docs,
                     route(qtype, sql, docs))

process_query(user_query, page, page_size, key) ==
    execute_query(user_query, page, page_size, key,
                  QueryCache_get(Get(cache), key, now),
                  classify(user_query),
                  _run_sql_query(user_query, page, page_size, Get(schema),
                                 Databases[Get(engine)].tables),
                  _search_documents(vectorstore, collection, user_query,
                                    page, page_size))

\* POST /api/query
PostQuery(user_query, page, page_size) ==
    /\ used' = [used EXCEPT !.queries = @ + 1]
    /\ UNCHANGED connects
    /\ IF ~is_initialized
       THEN /\ resp' = [status |-> 400, of |-> "query"]
            /\ call' = [made |-> TRUE, n |-> used.queries + 1, status |-> 400,
                        ready |-> FALSE, connected |-> connects.succeeded > 0,
                        user_query |-> user_query, page |-> page, page_size |-> page_size]
            /\ UNCHANGED <<app, world, executions, written>>
       ELSE process_query(user_query, page, page_size,
                          cache_key(user_query, page, page_size))
    /\ UNCHANGED <<probe, out>>

---------------------------------------------------------------------------
(* GET /api/query/history, GET /api/schema                                 *)
Reverse(s) == [i \in 1..Len(s) |-> s[Len(s) + 1 - i]]

GetQueryHistory ==
    /\ resp' = [status |-> 200, of |-> "history", body |-> Reverse(query_history)]
    /\ UNCHANGED <<app, world, ghost, used>>
    /\ UNCHANGED <<probe, out>>

GetSchema ==
    /\ resp' = IF IsNone(schema) THEN [status |-> 404, of |-> "schema"]
               ELSE [status |-> 200, of |-> "schema", schema |-> Get(schema)]
    /\ UNCHANGED <<app, world, ghost, used>>
    /\ UNCHANGED <<probe, out>>

---------------------------------------------------------------------------
(* Document ingestion: POST /api/upload-documents, its background task     *)
(* (DocumentProcessor.process_files_from_paths) and                        *)
(* GET /api/ingestion-status/{job_id}.  A job id is the job's number.      *)

\* what the parsers and the splitter make of a file's bytes: its chunks,
\* or no text at all when the parser raises
Contents ==
    [cv_a   |-> [readable |-> TRUE, chunks |-> <<"cv_a.1", "cv_a.2">>],
     cv_b   |-> [readable |-> TRUE, chunks |-> <<"cv_b.1">>],
     notes  |-> [readable |-> TRUE, chunks |-> <<"notes.1">>],
     pay    |-> [readable |-> TRUE, chunks |-> <<"pay.1">>],
     broken |-> [readable |-> FALSE, chunks |-> <<>>]]

SUPPORTED_TYPES == {<<"p","d","f">>, <<"d","o","c","x">>, <<"t","x","t">>, <<"c","s","v">>}

\* s.split(ch)[-1]
AfterLast(s, ch) ==
    LET at == {i \in 1..Len(s) : s[i] = ch}
    IN  IF at = {} THEN s
        ELSE SubSeq(s, (CHOOSE i \in at : \A j \in at : j <= i) + 1, Len(s))

\* (f.filename or "upload.bin").split("/")[-1].split("\\")[-1]
safe_name(filename) ==
    AfterLast(AfterLast(IF filename = <<>> THEN <<"u","p","l","o","a","d",".","b","i","n">> ELSE filename, "/"), "\\")

\* s.strip(".")
StripDots(s) ==
    LET core == {i \in 1..Len(s) : s[i] # "."}
    IN  IF core = {} THEN <<>>
        ELSE SubSeq(s, CHOOSE i \in core : \A j \in core : i <= j,
                       CHOOSE i \in core : \A j \in core : j <= i)

\* path.suffix.lower().strip(".")
suffix_of(name) ==
    LET dots == {i \in 1..Len(name) : name[i] = "."}
        last == CHOOSE i \in dots : \A j \in dots : j <= i
    IN  IF dots = {} \/ last = 1 \/ last = Len(name) THEN <<>>
        ELSE StripDots(lower(SubSeq(name, last, Len(name))))

\* the file names that clients send in the loads below
FileNames ==
    {<<"c","v",".","p","d","f">>, <<"n","e","w","/","c","v",".","p","d","f">>, <<"o","l","d","/","b","a","d",".","p","d","f">>, <<"n","o","t","e","s",".","T","X","T">>, <<"t","o","o","l",".","e","x","e">>, <<"p","a","y",".","c","s","v">>}

\* safe_name of every file name, worked out once
safe_names == [f \in FileNames |-> safe_name(f)]

\* path.suffix.lower().strip(".") of every path a file can be saved at,
\* worked out once
suffixes == [name \in {safe_names[f] : f \in FileNames} |-> suffix_of(name)]

\* NewJob with the job born 'processing'
NewJob_processing(total) ==
    [status |-> "processing", processed |-> 0, total |-> total, errors |-> <<>>]

NewJob(total) == [status |-> "queued", processed |-> 0, total |-> total, errors |-> <<>>]

\* upload_documents up to its first await: the storage directories, the
\* empty request, the job record.  A task's statuses are the values that
\* job["status"] has been assigned so far, in order.
UploadBegin(files, storage_ok) ==
    /\ used' = [used EXCEPT !.uploads = @ + 1]
    /\ IF ~storage_ok
       THEN /\ resp' = [status |-> 500, of |-> "upload-documents"]
            /\ UNCHANGED <<app, world, ghost>>
       ELSE IF Len(files) = 0
       THEN /\ resp' = [status |-> 400, of |-> "upload-documents"]
            /\ storage_dirs' = Some("data")
            /\ UNCHANGED <<connection_string, engine, schema, cache, vectorstore,
                           query_history, jobs, world, ghost>>
       ELSE /\ storage_dirs' = Some("data")
            /\ jobs' = Append(jobs, NewJob(Len(files)))
            /\ tasks' = Append(tasks, [pc |-> "saving", files |-> files, next |-> 1,
                                       saved_paths |-> <<>>, texts |-> <<>>,
                                       statuses |-> <<NewJob(Len(files)).status>>])
            /\ UNCHANGED <<connection_string, engine, schema, cache, vectorstore,
                           query_history, now, collection, disk, resp, ghost>>
    /\ UNCHANGED <<probe, out>>

\* UploadSave that leaves a file that is already at the path as it is
UploadSave_keeps_first(j, write_ok) ==
    /\ j \in 1..Len(tasks)
    /\ tasks[j].pc = "saving"
    /\ LET t == tasks[j]
           name == safe_names[t.files[t.next].filename]
           ok == write_ok /\ name # <<>>
           saved == IF ok THEN Append(t.saved_paths, name) ELSE t.saved_paths
           last == t.next = Len(t.files)
       IN  /\ disk' = IF ok THEN disk @@ (name :> t.files[t.next].content) ELSE disk
           /\ jobs' = [jobs EXCEPT
                         ![j].errors = IF ok THEN @ ELSE Append(@, <<name, "write failed">>),
                         ![j].total = IF last THEN Len(saved) ELSE @]
           /\ tasks' = [tasks EXCEPT ![j].saved_paths = saved,
                                     ![j].next = IF last THEN 1 ELSE @ + 1,
                                     ![j].pc = IF last THEN "scheduled" ELSE @]
           /\ resp' = IF last
                      THEN [status |-> 200, of |-> "upload-documents",
                            job_id |-> j, accepted |-> Len(saved)]
                      ELSE resp
    /\ UNCHANGED <<connection_string, engine, schema, cache, storage_dirs, vectorstore,
                   query_history, now, collection, ghost, used>>
    /\ UNCHANGED <<probe, out>>

\* UploadSave that leaves total at the number of files sent
UploadSave_total_as_sent(j, write_ok) ==
    /\ j \in 1..Len(tasks)
    /\ tasks[j].pc = "saving"
    /\ LET t == tasks[j]
           name == safe_names[t.files[t.next].filename]
           ok == write_ok /\ name # <<>>
           saved == IF ok THEN Append(t.saved_paths, name) ELSE t.saved_paths
           last == t.next = Len(t.files)
       IN  /\ disk' = IF ok THEN (name :> t.files[t.next].content) @@ disk ELSE disk
           /\ jobs' = [jobs EXCEPT
                         ![j].errors = IF ok THEN @ ELSE Append(@, <<name, "write failed">>),
                         ![j].total = @]
           /\ tasks' = [tasks EXCEPT ![j].saved_paths = saved,
                                     ![j].next = IF last THEN 1 ELSE @ + 1,
                                     ![j].pc = IF last THEN "scheduled" ELSE @]
           /\ resp' = IF last
                      THEN [status |-> 200, of |-> "upload-documents",
                            job_id |-> j, accepted |-> Len(saved)]
                      ELSE resp
    /\ UNCHANGED <<connection_string, engine, schema, cache, storage_dirs, vectorstore,
                   query_history, now, collection, ghost, used>>
    /\ UNCHANGED <<probe, out>>

\* one turn of the saving loop; after the last file the handler sets total,
\* schedules the background task and answers
UploadSave(j, write_ok) ==
    /\ j \in 1..Len(tasks)
    /\ tasks[j].pc = "saving"
    /\ LET t == tasks[j]
           name == safe_names[t.files[t.next].filename]
           ok == write_ok /\ name # <<>>
           saved == IF ok THEN Append(t.saved_paths, name) ELSE t.saved_paths
           last == t.next = Len(t.files)
       IN  /\ disk' = IF ok THEN (name :> t.files[t.next].content) @@ disk ELSE disk
           /\ jobs' = [jobs EXCEPT
                         ![j].errors = IF ok THEN @ ELSE Append(@, <<name, "write failed">>),
                         ![j].total = IF last THEN Len(saved) ELSE @]
           /\ tasks' = [tasks EXCEPT ![j].saved_paths = saved,
                                     ![j].next = IF last THEN 1 ELSE @ + 1,
                                     ![j].pc = IF last THEN "scheduled" ELSE @]
           /\ resp' = IF last
                      THEN [status |-> 200, of |-> "upload-documents",
                            job_id |-> j, accepted |-> Len(saved)]
                      ELSE resp
    /\ UNCHANGED <<connection_string, engine, schema, cache, storage_dirs, vectorstore,
                   query_history, now, collection, ghost, used>>
    /\ UNCHANGED <<probe, out>>

\* file_fate without the check of the extension
file_fate_any_type(name, files_on_disk) ==
    IF suffixes[name] \in {<<"p","d","f">>, <<"d","o","c","x">>}
       /\ ~Contents[files_on_disk[name]].readable
    THEN "unparsable"
    ELSE "indexed"

\* what the body of the loop makes of a saved path: an unsupported type,
\* a parser that raises (pdf and docx; txt and csv are read with
\* errors="ignore"), or chunks to index
file_fate(name, files_on_disk) ==
    IF suffixes[name] \notin SUPPORTED_TYPES THEN "unsupported"
    ELSE IF suffixes[name] \in {<<"p","d","f">>, <<"d","o","c","x">>}
            /\ ~Contents[files_on_disk[name]].readable
    THEN "unparsable"
    ELSE "indexed"

\* _extract_text awaits a thread for these
reads_in_thread(name) == suffixes[name] \in {<<"t","x","t">>, <<"c","s","v">>}

\* the texts and metadatas appended for one file
file_chunks(j, name, files_on_disk) ==
    [k \in 1..Len(Contents[files_on_disk[name]].chunks) |->
        [text |-> Contents[files_on_disk[name]].chunks[k],
         metadata |-> [filename |-> name, chunk |-> k - 1, job_id |-> j,
                       type |-> suffixes[name]]]]

RECURSIVE chunks_of(_, _, _, _, _)
\* the chunks of the files from i up to stop that are indexed, in order
chunks_of(j, paths, files_on_disk, i, stop) ==
    IF i >= stop THEN <<>>
    ELSE (IF file_fate(paths[i], files_on_disk) = "indexed"
          THEN file_chunks(j, paths[i], files_on_disk) ELSE <<>>)
         \o chunks_of(j, paths, files_on_disk, i + 1, stop)

RECURSIVE errors_of(_, _, _, _)
\* the errors of the files from i up to stop, in order
errors_of(paths, files_on_disk, i, stop) ==
    IF i >= stop THEN <<>>
    ELSE (IF file_fate(paths[i], files_on_disk) = "unsupported"
          THEN <<(<<paths[i], "Unsupported file type">>)>>
          ELSE IF file_fate(paths[i], files_on_disk) = "unparsable"
          THEN <<(<<paths[i], "cannot parse">>)>>
          ELSE <<>>)
         \o errors_of(paths, files_on_disk, i + 1, stop)

\* process_files_from_paths from file i on, up to its next await (the read
\* of a txt or csv file in a thread) or through the last file; resumed says
\* that file i's read has just returned
run_files(j, job, t, files_on_disk, i, resumed) ==
    LET n == Len(t.saved_paths)
        waits == {k \in i..n : /\ reads_in_thread(t.saved_paths[k])
                               /\ ~(k = i /\ resumed)}
        stop == IF waits = {} THEN n + 1
                ELSE CHOOSE k \in waits : \A w \in waits : k <= w
        indexed == {k \in i..(stop - 1) :
                       file_fate(t.saved_paths[k], files_on_disk) = "indexed"}
    IN  [job |-> [job EXCEPT
                    !.errors = @ \o errors_of(t.saved_paths, files_on_disk, i, stop),
                    !.processed = IF indexed = {} THEN @
                                  ELSE CHOOSE k \in indexed : \A x \in indexed : x <= k],
         task |-> [t EXCEPT
                    !.texts = @ \o chunks_of(j, t.saved_paths, files_on_disk, i, stop),
                    !.pc = IF stop > n THEN "indexing" ELSE "reading",
                    !.next = stop]]

\* JobRun that also empties the query cache
JobRun_clears_cache(j, embed_ok) ==
    /\ j \in 1..Len(tasks)
    /\ tasks[j].pc \in {"scheduled", "reading"}
    /\ \E started \in {[jobs[j] EXCEPT !.status = "processing"]},
          seen \in {IF tasks[j].pc = "scheduled"
                    THEN Append(tasks[j].statuses, "processing")
                    ELSE tasks[j].statuses} :
       \E r \in {run_files(j, started, tasks[j], disk, tasks[j].next,
                            tasks[j].pc = "reading")} :
           IF r.task.pc = "reading"
           THEN /\ jobs' = [jobs EXCEPT ![j] = r.job]
                /\ tasks' = [tasks EXCEPT ![j] = [r.task EXCEPT !.statuses = seen]]
                /\ UNCHANGED <<vectorstore, collection>>
           ELSE IF Len(r.task.texts) = 0
           THEN /\ jobs' = [jobs EXCEPT ![j] = [r.job EXCEPT !.status = "completed"]]
                /\ tasks' = [tasks EXCEPT ![j] =
                               [r.task EXCEPT !.pc = "done",
                                              !.statuses = Append(seen, "completed")]]
                /\ UNCHANGED <<vectorstore, collection>>
           ELSE IF embed_ok
           THEN /\ jobs' = [jobs EXCEPT ![j] = [r.job EXCEPT !.status = "completed"]]
                /\ tasks' = [tasks EXCEPT ![j] =
                               [r.task EXCEPT !.pc = "done",
                                              !.statuses = Append(seen, "completed")]]
                /\ vectorstore' = Some("employee_docs")
                /\ collection' = collection \o r.task.texts
           ELSE /\ jobs' = [jobs EXCEPT ![j] =
                              [r.job EXCEPT !.status = "failed",
                                            !.errors = Append(@, <<<<>>, "embeddings">>)]]
                /\ tasks' = [tasks EXCEPT ![j] =
                               [r.task EXCEPT !.pc = "done",
                                              !.statuses = Append(seen, "failed")]]
                /\ UNCHANGED <<vectorstore, collection>>
    /\ cache' = IF IsNone(cache) THEN cache
                ELSE Some([Get(cache) EXCEPT !.entries = <<>>])
    /\ UNCHANGED <<connection_string, engine, schema, storage_dirs,
                   query_history, now, disk, resp, ghost, used>>
    /\ UNCHANGED <<probe, out>>

\* a stretch of the background task, from where it stands to its next
\* await or to its end; embed_ok is whether the embedding backend and the
\* vector store can be had when the chunks are indexed
JobRun(j, embed_ok) ==
    /\ j \in 1..Len(tasks)
    /\ tasks[j].pc \in {"scheduled", "reading"}
    /\ \E started \in {[jobs[j] EXCEPT !.status = "processing"]},
          seen \in {IF tasks[j].pc = "scheduled"
                    THEN Append(tasks[j].statuses, "processing")
                    ELSE tasks[j].statuses} :
       \E r \in {run_files(j, started, tasks[j], disk, tasks[j].next,
                            tasks[j].pc = "reading")} :
           IF r.task.pc = "reading"
           THEN /\ jobs' = [jobs EXCEPT ![j] = r.job]
                /\ tasks' = [tasks EXCEPT ![j] = [r.task EXCEPT !.statuses = seen]]
                /\ UNCHANGED <<vectorstore, collection>>
           ELSE IF Len(r.task.texts) = 0
           THEN /\ jobs' = [jobs EXCEPT ![j] = [r.job EXCEPT !.status = "completed"]]
                /\ tasks' = [tasks EXCEPT ![j] =
                               [r.task EXCEPT !.pc = "done",
                                              !.statuses = Append(seen, "completed")]]
                /\ UNCHANGED <<vectorstore, collection>>
           ELSE IF embed_ok
           THEN /\ jobs' = [jobs EXCEPT ![j] = [r.job EXCEPT !.status = "completed"]]
                /\ tasks' = [tasks EXCEPT ![j] =
                               [r.task EXCEPT !.pc = "done",
                                              !.statuses = Append(seen, "completed")]]
                /\ vectorstore' = Some("employee_docs")
                /\ collection' = collection \o r.task.texts
           ELSE /\ jobs' = [jobs EXCEPT ![j] =
                              [r.job EXCEPT !.status = "failed",
                                            !.errors = Append(@, <<<<>>, "embeddings">>)]]
                /\ tasks' = [tasks EXCEPT ![j] =
                               [r.task EXCEPT !.pc = "done",
                                              !.statuses = Append(seen, "failed")]]
                /\ UNCHANGED <<vectorstore, collection>>
    /\ UNCHANGED <<connection_string, engine, schema, cache, storage_dirs,
                   query_history, now, disk, resp, ghost, used>>
    /\ UNCHANGED <<probe, out>>

GetStatus(job_id) ==
    /\ resp' = IF job_id \in 1..Len(jobs)
               THEN [status |-> 200, of |-> "ingestion-status", job_id |-> job_id,
                     job |-> jobs[job_id]]
               ELSE [status |-> 404, of |-> "ingestion-status"]
    /\ UNCHANGED <<app, world, ghost, used>>
    /\ UNCHANGED <<probe, out>>

---------------------------------------------------------------------------
(* The clock.                                                              *)
Tick(d) ==
    /\ now' = now + d
    /\ used' = [used EXCEPT !.ticks = @ + 1]
    /\ UNCHANGED <<app, collection, disk, tasks, resp, ghost>>
    /\ UNCHANGED <<probe, out>>

---------------------------------------------------------------------------
(* Loads.  Every specification below starts from the state after           *)
(* construction and lets clients call the handlers, with the number of     *)
(* calls bounded and their arguments drawn from small sets.                *)
Init ==
    /\ SystemInit
    /\ probe = NoProbe
    /\ out = NotRun

\* connect, query and upload calls and clock moves so far
Calls == used.connects + used.queries + used.uploads + used.ticks

Q_count == <<"H","o","w"," ","m","a","n","y"," ","e","m","p","l","o","y","e","e","s">>
Q_search == <<"s","h","o","w"," ","b","o","b">>
Q_average == <<"a","v","e","r","a","g","e"," ","p","a","y">>
Q_document == <<"P","D","F"," ","p","o","l","i","c","y">>
Q_hybrid == <<"l","i","s","t"," ","d","o","c","u","m","e","n","t","s">>
Q_hybrid_count == <<"c","o","u","n","t"," ","e","m","p","l","o","y","e","e","s"," ","p","d","f">>

Request(q, p, z) == [user_query |-> q, page |-> p, page_size |-> z]

OneFile == <<[filename |-> <<"c","v",".","p","d","f">>, content |-> "cv_a"]>>
TwoFiles ==
    <<[filename |-> <<"o","l","d","/","b","a","d",".","p","d","f">>, content |-> "broken"],
      [filename |-> <<"n","o","t","e","s",".","T","X","T">>, content |-> "notes"]>>

Save == \E j \in 1..Len(tasks), write_ok \in BOOLEAN : UploadSave(j, write_ok)

Background == \E j \in 1..Len(tasks), embed_ok \in BOOLEAN : JobRun(j, embed_ok)

Status == \E j \in 1..(Len(jobs) + 1) : GetStatus(j)

---------------------------------------------------------------------------
(* The whole service under a light load: at most MaxCalls calls.           *)
MaxCalls == 3

Connect ==
    /\ Calls < MaxCalls
    /\ \E conn \in {"hr", "bad"}, storage_ok \in BOOLEAN :
          ConnectDatabase(conn, storage_ok)

Query ==
    /\ Calls < MaxCalls
    /\ PostQuery(Q_count, 1, 2)

Upload ==
    /\ Calls < MaxCalls
    /\ \E files \in {TwoFiles, <<>>}, storage_ok \in BOOLEAN :
          UploadBegin(files, storage_ok)

Next ==
    \/ Connect
    \/ Query
    \/ Upload
    \/ Save
    \/ Background
    \/ Status
    \/ GetQueryHistory
    \/ GetSchema

Spec == Init /\ [][Next]_vars

\* the last POST /api/query came before any connect-database call succeeded
ClaimUnconnectedCall == call.made /\ ~call.connected

(* C4: while no connect-database call has succeeded, POST /api/query       *)
(* answers 400 and runs no query; once one has succeeded, is_initialized   *)
(* is true and stays true, and POST /api/query answers 200.                *)
C4_QueryGatedOnConnect ==
    /\ ClaimUnconnectedCall =>
          /\ call.status = 400
          /\ ~call.ready
          /\ query_history = <<>>
    /\ connects.succeeded > 0 => is_initialized
    /\ (call.made /\ call.connected) => call.status = 200

---------------------------------------------------------------------------
(* Routing: queries of every class against every kind of database, with    *)
(* and without an indexed document.                                        *)
MaxRouteCalls == 3

RouteRequests ==
    {Request(Q_count, 1, 2), Request(Q_average, 1, 2), Request(Q_search, 2, 2),
     Request(Q_document, 1, 2), Request(Q_document, 1, 0),
     Request(Q_hybrid_count, 1, 2), Request(Q_hybrid, 1, 0)}

RouteConnect ==
    /\ Calls < MaxRouteCalls
    /\ \E conn \in {"hr", "staff", "empty"} : ConnectDatabase(conn, TRUE)

RouteQuery ==
    /\ Calls < MaxRouteCalls
    /\ \E r \in RouteRequests : PostQuery(r.user_query, r.page, r.page_size)

RouteUpload ==
    /\ Calls < MaxRouteCalls
    /\ UploadBegin(OneFile, TRUE)

RouteNext ==
    \/ RouteConnect
    \/ RouteQuery
    \/ RouteUpload
    \/ Save
    \/ Background

SpecRoute == Init /\ [][RouteNext]_vars

\* the last POST /api/query was answered by running the paths, not by the cache
ClaimFresh == call.made /\ call.ready /\ ~call.hit

ClaimSqlRaised == "sql" \in Range(call.ran) /\ call.sql.raised
ClaimDocsRaised == "documents" \in Range(call.ran) /\ call.docs.raised

(* C2: on a cache miss a sql query runs only the SQL path, a document      *)
(* query only the document search, a hybrid query the SQL path and then    *)
(* the document search, answering results = [table, documents] with the    *)
(* document sources; when nothing raises, query_type is what classify      *)
(* returns.                                                                *)
C2_RoutesByClassification ==
    ClaimFresh =>
        /\ classify(call.user_query) = "sql" => call.ran = <<"sql">>
        /\ classify(call.user_query) = "document" => call.ran = <<"documents">>
        /\ classify(call.user_query) = "hybrid" =>
              /\ call.ran = IF call.sql.raised THEN <<"sql">> ELSE <<"sql", "documents">>
              /\ (~ClaimSqlRaised /\ ~ClaimDocsRaised) =>
                    /\ call.payload.results =
                          [table |-> call.sql.result, documents |-> call.docs.results]
                    /\ call.payload.sources = call.docs.sources
        /\ (~ClaimSqlRaised /\ ~ClaimDocsRaised) =>
              call.payload.query_type = classify(call.user_query)

\* a hybrid query has been answered from a table and from indexed chunks
C2_Witness ==
    /\ ClaimFresh
    /\ classify(call.user_query) = "hybrid"
    /\ call.ran = <<"sql", "documents">>
    /\ call.payload.query_type = "hybrid"
    /\ Len(call.payload.results.table.rows) > 0
    /\ Len(call.payload.results.documents) > 0
    /\ Len(call.payload.sources) > 0

\* the payload of the last call is in the cache under the call's key, and it
\* is the newest entry of the history
ClaimRecorded ==
    /\ LiveEntry(Get(cache), cache_key(call.user_query, call.page, call.page_size), now)
          = Some([key |-> cache_key(call.user_query, call.page, call.page_size),
                  value |-> call.payload, expires |-> now + CacheTtl])
    /\ Len(query_history) > 0
    /\ query_history[Len(query_history)] =
          [query |-> call.user_query, type |-> call.payload.query_type, ts |-> now]

ClaimErrorAnswered ==
    (ClaimFresh /\ (ClaimSqlRaised \/ ClaimDocsRaised)) =>
        /\ call.status = 200
        /\ call.payload.query_type = "error"
        /\ call.payload.results =
              [error |-> IF ClaimSqlRaised THEN call.sql.error ELSE call.docs.error]
        /\ call.payload.sources = <<>>
        /\ ClaimSqlRaised => "documents" \notin Range(call.ran)
        /\ ClaimRecorded

(* C8: when the SQL path or the document search raises, POST /api/query    *)
(* still answers: query_type is error, results is [error |-> message],     *)
(* sources is empty, the document search is not run after a SQL failure,   *)
(* and the payload is put into the history, with type error, and into the  *)
(* cache under the query's key, as a successful one is.                    *)
C8_ErrorsBecomePayloads ==
    [][call' # call => (ClaimErrorAnswered /\ (ClaimFresh => ClaimRecorded))']_vars

\* a hybrid query whose document search raised after its SQL path returned
C8_Witness ==
    /\ ClaimFresh
    /\ classify(call.user_query) = "hybrid"
    /\ call.ran = <<"sql", "documents">>
    /\ ~call.sql.raised
    /\ call.docs.raised
    /\ call.payload.query_type = "error"
    /\ query_history[Len(query_history)].type = "error"

---------------------------------------------------------------------------
(* Caching: repeated requests, the clock, and reconnects.                  *)
MaxCacheCalls == 4

CacheRequests ==
    {Request(Q_count, 1, 2), Request(Q_count, 2, 2), Request(Q_average, 1, 2)}

CacheConnect ==
    /\ Calls < MaxCacheCalls
    /\ \E conn \in {"hr", "staff"} : ConnectDatabase(conn, TRUE)

CacheQuery ==
    /\ Calls < MaxCacheCalls
    /\ \E r \in CacheRequests : PostQuery(r.user_query, r.page, r.page_size)

Clock ==
    /\ Calls < MaxCacheCalls
    /\ \E d \in {CacheTtl - 1, CacheTtl} : Tick(d)

CacheNext ==
    \/ CacheConnect
    \/ CacheQuery
    \/ Clock

SpecCache == Init /\ [][CacheNext]_vars

\* the last call found its key written by an earlier call, with no connect
\* call since and less than CacheTtl seconds ago
ClaimEntryStillCached ==
    /\ call.made
    /\ call.ready
    /\ ~IsNone(call.earlier)
    /\ Get(call.earlier).connect = call.connect_calls
    /\ call.at < Get(call.earlier).at + CacheTtl

(* C3: a call with the query, page and page_size of an earlier call, made  *)
(* while the entry the earlier call wrote is still in the cache, answers   *)
(* cache.hit = TRUE with the earlier call's query_type, results and        *)
(* sources, and runs neither the SQL path nor the document search.         *)
C3_RepeatServedFromCache ==
    ClaimEntryStillCached =>
        /\ call.hit
        /\ call.payload.cache.hit
        /\ call.ran = <<>>
        /\ call.payload.query_type = Get(call.earlier).payload.query_type
        /\ call.payload.results = Get(call.earlier).payload.results
        /\ call.payload.sources = Get(call.earlier).payload.sources

\* a repeat one second before the entry expires was served from the cache
C3_Witness ==
    /\ ClaimEntryStillCached
    /\ call.hit
    /\ call.at = Get(call.earlier).at + CacheTtl - 1
    /\ call.payload.query_type = "sql"

---------------------------------------------------------------------------
(* Paging: count queries and others, at every page and page size.          *)
MaxPagingCalls == 2
MaxCountPage == 3

Q_count_employees == <<"C","o","u","n","t"," ","t","h","e"," ","E","m","p","l","o","y","e","e","s">>

PagingRequests ==
    {Request(q, p, z) : q \in {Q_count, Q_count_employees, Q_hybrid_count, Q_search},
                        p \in 0..MaxCountPage, z \in {0, 1, 50, 201}}

PagingConnect ==
    /\ Calls < MaxPagingCalls
    /\ \E conn \in {"hr", "staff", "orders", "empty"} : ConnectDatabase(conn, TRUE)

PagingQuery ==
    /\ Calls < MaxPagingCalls
    /\ \E r \in PagingRequests : PostQuery(r.user_query, r.page, r.page_size)

PagingNext ==
    \/ PagingConnect
    \/ PagingQuery

SpecPaging == Init /\ [][PagingNext]_vars

ClaimIsCountQuery(q) ==
    \/ Contains(lower(q), <<"h","o","w"," ","m","a","n","y">>)
    \/ Contains(lower(q), <<"c","o","u","n","t">>) /\ Contains(lower(q), <<"e","m","p","l","o","y","e","e","s">>)

\* the table the last call's query is answered from, in the connected database
ClaimMainTable ==
    LiveTable(Databases[Get(engine)].tables,
              Get(map_natural_language_to_schema(call.user_query, Get(schema)).table))

\* the last call was a sql count query on a page from 1 on, against the
\* database still connected, which has a main table
ClaimCountCall ==
    /\ call.made
    /\ call.ready
    /\ call.connect_calls = connects.calls
    /\ classify(call.user_query) = "sql"
    /\ ClaimIsCountQuery(call.user_query)
    /\ ~IsNone(map_natural_language_to_schema(call.user_query, Get(schema)).table)
    /\ call.page >= 1

(* C6: a sql query containing "how many", or "count" and "employees",      *)
(* against a connected database with a main table answers query_type sql   *)
(* and results.rows holding exactly one row, the table's row count, for    *)
(* every page from 1 on and every page_size.                               *)
C6_CountReturnsOneRow ==
    ClaimCountCall =>
        /\ call.payload.query_type = "sql"
        /\ call.payload.results.rows = << <<IntStr(Len(ClaimMainTable.rows))>> >>

---------------------------------------------------------------------------
(* History: a client that connects once and then works through a playlist  *)
(* of queries again and again, a page further each time and a second after *)
(* the request before; the entries of the playlist marked again are sent a *)
(* second time before the client moves on.                                 *)
MaxPlaylist == 1
MaxHistoryRuns == 52

Playlists ==
    UNION {[1..n -> [query : {Q_count, Q_average}, again : BOOLEAN]] : n \in 1..MaxPlaylist}

HistoryInit ==
    /\ SystemInit
    /\ probe \in {[fn |-> "client", playlist |-> pl] : pl \in Playlists}
    /\ out = NotRun

PlaylistItem(k) == probe.playlist[(k % Len(probe.playlist)) + 1]

\* the client's k-th new request, counted from 0
PlaylistRequest(k) ==
    Request(PlaylistItem(k).query, k + 1, 2)

\* how many of the first k requests are to be sent twice
Repeats(k) == Cardinality({i \in 0..(k - 1) : PlaylistItem(i).again})

HistoryConnect ==
    /\ used.connects = 0
    /\ \E conn \in {"hr", "staff"} : ConnectDatabase(conn, TRUE)

HistoryNew ==
    /\ used.connects > 0
    /\ Len(executions) < MaxHistoryRuns
    /\ used.queries - Len(executions) = Repeats(Len(executions))
    /\ now = Len(executions)
    /\ PostQuery(PlaylistRequest(Len(executions)).user_query,
                 PlaylistRequest(Len(executions)).page,
                 PlaylistRequest(Len(executions)).page_size)

HistoryRepeat ==
    /\ Len(executions) > 0
    /\ used.queries - Len(executions) < Repeats(Len(executions))
    /\ PostQuery(PlaylistRequest(Len(executions) - 1).user_query,
                 PlaylistRequest(Len(executions) - 1).page,
                 PlaylistRequest(Len(executions) - 1).page_size)

HistoryWait ==
    /\ now < Len(executions)
    /\ used.queries - Len(executions) = Repeats(Len(executions))
    /\ Tick(1)

HistoryNext ==
    \/ HistoryConnect
    \/ HistoryNew
    \/ HistoryRepeat
    \/ HistoryWait
    \/ GetQueryHistory

SpecHistory == HistoryInit /\ [][HistoryNext]_vars

\* the last n elements of s, or all of s
ClaimMostRecent(s, n) == [i \in 1..Min(n, Len(s)) |-> s[Len(s) - Min(n, Len(s)) + i]]

(* C9: query_history holds at most 50 entries, the most recent executions  *)
(* that missed the cache, in the order they ran: a miss appends one entry, *)
(* a hit none; GET /api/query/history answers with them newest first and   *)
(* leaves the history as it is.                                            *)
C9_HistoryKeepsLastFifty ==
    /\ Len(query_history) <= 50
    /\ query_history = ClaimMostRecent(executions, 50)
    /\ ~IsNone(cache) =>
          /\ Len(executions) = Get(cache).misses
          /\ used.queries = Get(cache).misses + Get(cache).hits
    /\ resp.of = "history" =>
          /\ Len(resp.body) = Len(query_history)
          /\ \A i \in 1..Len(resp.body) :
                resp.body[i] = query_history[Len(query_history) + 1 - i]

\* more than 50 executions, some requests served from the cache in between,
\* and the history read back
C9_Witness ==
    /\ Len(executions) > 50
    /\ Len(query_history) = 50
    /\ ~IsNone(cache)
    /\ Get(cache).hits > 0
    /\ resp.of = "history"
    /\ resp.body[1] = executions[Len(executions)]
    /\ query_history[1] # executions[1]

---------------------------------------------------------------------------
(* Examination of classify on its own: every text of at most MaxWords      *)
(* words of Vocabulary, joined by single spaces.                           *)
MaxWords == 2

Vocabulary ==
    {<<"r","e","s","u","m","e">>, <<"P","D","F">>, <<"P","o","l","i","c","y">>, <<"d","o","c">>, <<"c","o","u","n","t">>, <<"S","h","o","w">>, <<"e","m","p","l","o","y","e","e","s">>,
     <<"s","u","m">>, <<"b","o","b">>, <<"h","o","w">>}

ClassifyQueries == {JoinWith(<<" ">>, ws) : ws \in SeqsUpTo(Vocabulary, MaxWords)}

ClassifyInit ==
    /\ SystemInit
    /\ probe \in {[fn |-> "classify", user_query |-> q] : q \in ClassifyQueries}
    /\ out = NotRun

ClassifyStep ==
    /\ probe.fn = "classify"
    /\ out = NotRun
    /\ out' = [done |-> TRUE, value |-> classify(probe.user_query)]
    /\ UNCHANGED <<probe, system>>

SpecClassify == ClassifyInit /\ [][ClassifyStep]_vars

\* the keyword lists as the claim gives them
ClaimDocWords == {<<"r","e","s","u","m","e">>, <<"d","o","c","u","m","e","n","t">>, <<"p","o","l","i","c","y">>, <<"c","o","n","t","r","a","c","t">>, <<"r","e","v","i","e","w">>, <<"p","d","f">>, <<"d","o","c">>}
ClaimSqlWords == {<<"c","o","u","n","t">>, <<"a","v","e","r","a","g","e">>, <<"a","v","g">>, <<"s","u","m">>, <<"l","i","s","t">>, <<"s","h","o","w">>, <<"w","h","o">>,
                  <<"e","m","p","l","o","y","e","e","s">>, <<"d","e","p","a","r","t","m","e","n","t">>}
HasDocWord(text) == \E k \in ClaimDocWords : Contains(lower(text), k)
HasSqlWord(text) == \E k \in ClaimSqlWords : Contains(lower(text), k)

(* C1: classify is total into {sql, document, hybrid}; it answers "hybrid" *)
(* exactly when the lower-cased query contains a doc keyword and an sql    *)
(* keyword, "document" exactly when it contains a doc keyword and no sql   *)
(* keyword, and "sql" in every other case; so a query that contains a doc  *)
(* keyword is never classified "sql".                                      *)
C1_ClassifyByKeywords ==
    (probe.fn = "classify" /\ out.done) =>
        LET d == HasDocWord(probe.user_query)
            s == HasSqlWord(probe.user_query)
        IN  /\ out.value \in {"sql", "document", "hybrid"}
            /\ (out.value = "hybrid") <=> (d /\ s)
            /\ (out.value = "document") <=> (d /\ ~s)
            /\ (out.value = "sql") <=> ~d
            /\ d => out.value # "sql"

\* a mixed-case query with a doc keyword and no sql keyword has been classified
C1_Witness ==
    /\ probe.fn = "classify"
    /\ out.done
    /\ probe.user_query = <<"P","D","F"," ","P","o","l","i","c","y">>
    /\ out.value = "document"

---------------------------------------------------------------------------
(* Examination of map_natural_language_to_schema on its own: every         *)
(* database of at most MaxTables distinct tables, under two query texts.   *)
MaxTables == 3

SampleTables == {T_employees, T_departments, T_Staff, T_orders, T_temp_log}

TableLists ==
    {ts \in SeqsUpTo(SampleTables, MaxTables) :
        \A i, j \in 1..Len(ts) : i # j => ts[i] # ts[j]}

SchemaInit ==
    /\ SystemInit
    /\ probe \in {[fn |-> "map", db_tables |-> ts, query |-> q] :
                    ts \in TableLists, q \in {<<"A","v","e","r","a","g","e"," ","s","a","l","a","r","y"," ","b","y"," ","d","e","p","a","r","t","m","e","n","t">>, <<"o","r","d","e","r","s">>}}
    /\ out = NotRun

SchemaStep ==
    /\ probe.fn = "map"
    /\ out = NotRun
    /\ out' = [done |-> TRUE,
               value |-> map_natural_language_to_schema(
                            probe.query, analyze_database(probe.db_tables))]
    /\ UNCHANGED <<probe, system>>

SpecSchema == SchemaInit /\ [][SchemaStep]_vars

\* the tables whose lower-cased name contains an employee synonym, in discovery order
ClaimEmployeeTables(ts) ==
    SelectSeq(ts, LAMBDA t : \E i \in 1..Len(EMPLOYEE_SYNONYMS) :
                                Contains(lower(t.name), EMPLOYEE_SYNONYMS[i]))

---------------------------------------------------------------------------
(* Examination of the statement built by _run_sql_query: every text of at  *)
(* most MaxSqlWords words of SqlVocabulary, against a table with a         *)
(* department column and against one without.                              *)
MaxSqlWords == 2

SqlVocabulary == {<<"b","o","b">>, <<"b","o","b","_","d">>, <<"S","h","o","w">>, <<"m","e">>, <<"j","o","n","e","s">>, <<"o","p","s">>, <<"b","_","b">>, <<"o","'","h","a","r","a">>}

SqlQueries == {JoinWith(<<" ">>, ws) : ws \in SeqsUpTo(SqlVocabulary, MaxSqlWords)}

SqlInit ==
    /\ SystemInit
    /\ probe \in {[fn |-> "sql", user_query |-> q, db_tables |-> <<t>>] :
                    q \in SqlQueries, t \in {T_Staff, T_orders}}
    /\ out = NotRun

SqlStep ==
    /\ probe.fn = "sql"
    /\ out = NotRun
    /\ LET sch == analyze_database(probe.db_tables)
       IN  out' = [done |-> TRUE,
                   prep |-> prepare_sql(probe.user_query, 1, 50, sch),
                   answer |-> _run_sql_query(probe.user_query, 1, 50, sch,
                                             probe.db_tables)]
    /\ UNCHANGED <<probe, system>>

SpecSql == SqlInit /\ [][SqlStep]_vars

\* the tokens as the claim gives them: maximal runs of letters and
\* underscores of the lower-cased query, minus the stop words
ClaimTokens(text) ==
    SelectSeq(FindAllWords(lower(text)),
              LAMBDA t : t \notin {<<"s","h","o","w">>, <<"l","i","s","t">>, <<"m","e">>, <<"a","l","l">>})

ClaimDeptHinted(t) == ~IsNone(column_map(t).department)

(* C5: in the generic-search branch, for every token t of the query the    *)
(* placeholder :t, and :t_d when a department column is hinted, is bound   *)
(* in params, and bound to the pattern %t% of that same token.             *)
C5_PlaceholdersBoundToOwnToken ==
    (probe.fn = "sql" /\ out.done /\ out.prep.stmt.plan.kind = "search") =>
        LET params == out.prep.stmt.params
            tokens == ClaimTokens(probe.user_query)
        IN  \A i \in 1..Len(tokens) :
                LET t == tokens[i]
                IN  /\ t \in DOMAIN params
                    /\ params[t] = <<"%">> \o t \o <<"%">>
                    /\ ClaimDeptHinted(probe.db_tables[1]) =>
                        /\ (t \o <<"_","d">>) \in DOMAIN params
                        /\ params[t \o <<"_","d">>] = <<"%">> \o t \o <<"%">>

---------------------------------------------------------------------------
(* Examination of optimize_sql_query on its own, applied once and then to  *)
(* its own result: statements with and without a LIMIT, pages and page     *)
(* sizes around the clamps.                                                *)
MaxPage == 3
MaxSmallSize == 2

SampleStatements ==
    {build_sql(<<"h","o","w"," ","m","a","n","y">>, <<"e","m","p","l","o","y","e","e","s">>, <<"f","u","l","l","_","n","a","m","e">>, None, None, None).sql,
     build_sql(<<"j","o","i","n"," ","d","a","t","e">>, <<"S","t","a","f","f">>, <<"N","a","m","e">>, None, None, None).sql,
     build_sql(<<"l","i","m","i","t">>, <<"o","r","d","e","r","s">>, <<"c","u","s","t","o","m","e","r">>, None, None, None).sql,
     build_sql(<<"l","i","s","t"," ","a","l","l">>, <<"l","i","m","i","t">>, <<"i","d">>, None, None, None).sql,
     <<"s","e","l","e","c","t"," ","*"," ","f","r","o","m"," ","t"," ","l","i","m","i","t"," ","5">>,
     <<"S","E","L","E","C","T"," ","*"," ","F","R","O","M"," ","t"," ","L","I","M","I","T">>}

Pages == (-1)..MaxPage
PageSizes == ((-1)..MaxSmallSize) \cup ((PageSizeCap - 1)..(PageSizeCap + 1))

OptimizeInit ==
    /\ SystemInit
    /\ probe \in {[fn |-> "optimize", sql |-> x, page |-> p, page_size |-> z] :
                    x \in SampleStatements, p \in Pages, z \in PageSizes}
    /\ out = NotRun

OptimizeOnce ==
    /\ probe.fn = "optimize"
    /\ out = NotRun
    /\ out' = [done |-> TRUE, times |-> 1,
               once |-> optimize_sql_query(probe.sql, probe.page, probe.page_size)]
    /\ UNCHANGED <<probe, system>>

OptimizeAgain ==
    /\ probe.fn = "optimize"
    /\ out.done
    /\ out.times = 1
    /\ out' = [done |-> TRUE, times |-> 2, once |-> out.once,
               twice |-> optimize_sql_query(out.once, probe.page, probe.page_size)]
    /\ UNCHANGED <<probe, system>>

SpecOptimize == OptimizeInit /\ [][OptimizeOnce \/ OptimizeAgain]_vars

(* C10: optimize_sql_query returns a statement whose lower-cased text      *)
(* contains " limit " unchanged; otherwise it appends "LIMIT n OFFSET o"   *)
(* with n = min(200, max(1, page_size)) and o = (max(1, page) - 1) * n, so *)
(* 1 <= n <= 200 and o >= 0; applying it to its own result changes nothing.*)
C10_PaginationClamped ==
    (probe.fn = "optimize" /\ out.done) =>
        LET n == Min(200, Max(1, probe.page_size))
            o == (Max(1, probe.page) - 1) * n
        IN  /\ n >= 1 /\ n <= 200 /\ o >= 0
            /\ Contains(lower(probe.sql), <<" ","l","i","m","i","t"," ">>) => out.once = probe.sql
            /\ ~Contains(lower(probe.sql), <<" ","l","i","m","i","t"," ">>) =>
                  out.once = probe.sql \o <<" ","L","I","M","I","T"," ">> \o IntStr(n) \o <<" ","O","F","F","S","E","T"," ">> \o IntStr(o)
            /\ out.times = 2 => out.twice = out.once

\* a page size above the cap and a page below 1 have been clamped, and the
\* function has been applied to its own result
C10_Witness ==
    /\ probe.fn = "optimize"
    /\ out.done
    /\ out.times = 2
    /\ probe.page_size = 201
    /\ probe.page = 0
    /\ probe.sql = <<"S","E","L","E","C","T"," ","C","O","U","N","T","(","*",")"," ","a","s"," ","c","o","u","n","t"," ","F","R","O","M"," ","e","m","p","l","o","y","e","e","s">>
    /\ out.once = <<"S","E","L","E","C","T"," ","C","O","U","N","T","(","*",")"," ","a","s"," ","c","o","u","n","t"," ","F","R","O","M"," ","e","m","p","l","o","y","e","e","s"," ","L","I","M","I","T"," ","2","0","0"," ","O","F","F","S","E","T"," ","0">>


---------------------------------------------------------------------------
(* The life of a job: uploads of a pdf and a text file, of which either    *)
(* may fail to be saved, so that a background task runs to its end at      *)
(* once, or stops at the await of the text file's read; the indexing of    *)
(* the chunks may raise.                                                   *)
MaxLifeCalls == 2

Papers ==
    <<[filename |-> <<"c","v",".","p","d","f">>, content |-> "cv_a"],
      [filename |-> <<"n","o","t","e","s",".","T","X","T">>, content |-> "notes"]>>

LifeUpload ==
    /\ Calls < MaxLifeCalls
    /\ UploadBegin(Papers, TRUE)

LifeNext ==
    \/ LifeUpload
    \/ Save
    \/ Background

SpecLife == Init /\ [][LifeNext]_vars

\* the event loop resumes a handler or a background task that can run:
\* asyncio schedules ready coroutines first in, first out, and Starlette
\* runs a response's background tasks once the response is sent
FairLife == SpecLife /\ WF_vars(Save) /\ WF_vars(Background)

Last(s) == s[Len(s)]

Lifecycles ==
    {<<"queued">>, <<"queued", "processing">>,
     <<"queued", "processing", "completed">>, <<"queued", "processing", "failed">>}

ClaimTerminal(j) == jobs[j].status \in {"completed", "failed"}

\* the chunks in the collection that job j indexed
IndexedBy(j) == SelectSeq(collection, LAMBDA d : d.metadata.job_id = j)

\* job j has been assigned 'queued', then 'processing', then 'completed' or
\* 'failed', as far as it got; 'failed' came from the indexing of its chunks
ClaimLifecycle(j) ==
    /\ tasks[j].statuses \in Lifecycles
    /\ jobs[j].status = Last(tasks[j].statuses)
    /\ jobs[j].status = "failed" =>
          /\ tasks[j].texts # <<>>
          /\ IndexedBy(j) = <<>>
          /\ Last(jobs[j].errors) = <<<<>>, "embeddings">>

(* C11: a job is created 'queued', leaves 'queued' only for 'processing',  *)
(* leaves 'processing' only for 'completed' or 'failed', which no step     *)
(* changes again; 'failed' comes only from the indexing step raising in    *)
(* the background task; and when handlers and background tasks are         *)
(* scheduled fairly every created job ends 'completed' or 'failed'.        *)
C11_JobLifecycle ==
    /\ [](\A j \in 1..Len(jobs) : ClaimLifecycle(j))
    /\ [][\A j \in 1..Len(jobs) :
            ClaimTerminal(j) => jobs'[j].status = jobs[j].status]_vars
    /\ \A j \in 1..MaxLifeCalls :
          (j <= Len(jobs)) ~> (j <= Len(jobs) /\ ClaimTerminal(j))

\* two jobs whose tasks interleaved ended, one 'completed' after passing
\* through 'processing' at an await, the other 'failed'
C11_Witness ==
    /\ Len(jobs) = 2
    /\ \E j, k \in 1..2 :
          /\ tasks[j].statuses = <<"queued", "processing", "completed">>
          /\ tasks[k].statuses = <<"queued", "processing", "failed">>
          /\ jobs[j].status = "completed"
          /\ jobs[k].status = "failed"

---------------------------------------------------------------------------
(* Ingestion: uploads whose handlers and background tasks interleave.     *)
(* The requests mix files that parse, a pdf that does not, an extension    *)
(* that is not supported and a text file read in a thread.                 *)
MaxIngestCalls == 2

Shipped ==
    <<[filename |-> <<"t","o","o","l",".","e","x","e">>, content |-> "cv_b"],
      [filename |-> <<"c","v",".","p","d","f">>, content |-> "cv_a"]>>

IngestRequests == {TwoFiles, Shipped}

IngestUpload ==
    /\ Calls < MaxIngestCalls
    /\ \E files \in IngestRequests : UploadBegin(files, TRUE)

IngestNext ==
    \/ IngestUpload
    \/ Save
    \/ Background

SpecIngest == Init /\ [][IngestNext]_vars

\* the name file k of job j is saved under
ClaimName(j, k) == safe_name(tasks[j].files[k].filename)

\* file k of job j could not be saved, has an unsupported extension, or is
\* a pdf or docx that its parser rejects
ClaimFileFails(j, k) ==
    \/ ClaimName(j, k) \notin Range(tasks[j].saved_paths)
    \/ suffix_of(ClaimName(j, k)) \notin SUPPORTED_TYPES
    \/ /\ suffix_of(ClaimName(j, k)) \in {<<"p","d","f">>, <<"d","o","c","x">>}
       /\ ~Contents[tasks[j].files[k].content].readable

\* the entries of job j's errors list that name this file
ClaimErrorsAbout(j, name) == SelectSeq(jobs[j].errors, LAMBDA e : e[1] = name)

\* the chunks that job j took from the file of this name, as texts
ClaimChunksFrom(j, name) ==
    LET from == SelectSeq(tasks[j].texts, LAMBDA d : d.metadata.filename = name)
    IN  [i \in 1..Len(from) |-> from[i].text]

\* the chunks that job j put into the collection from the file of this name
ClaimIndexedFrom(j, name) ==
    LET from == SelectSeq(IndexedBy(j), LAMBDA d : d.metadata.filename = name)
    IN  [i \in 1..Len(from) |-> from[i].text]

ClaimFailing(j) == {k \in 1..Len(tasks[j].files) : ClaimFileFails(j, k)}

\* the background task of job j has ended
ClaimEnded(j) == tasks[j].pc = "done"

(* C13: when a job's background task has ended, each file that could not   *)
(* be saved, has an unsupported extension or was rejected by its parser    *)
(* has exactly one entry in the job's errors and no chunk; every other     *)
(* file has no entry and all its chunks, which are in the collection       *)
(* when the job is 'completed'; the job is 'completed' unless the          *)
(* indexing step itself raised, and always when every file failed.         *)
C13_FileFailuresIsolated ==
    \A j \in 1..Len(jobs) : ClaimEnded(j) =>
        /\ \A k \in 1..Len(tasks[j].files) :
              IF ClaimFileFails(j, k)
              THEN /\ Len(ClaimErrorsAbout(j, ClaimName(j, k))) = 1
                   /\ ClaimChunksFrom(j, ClaimName(j, k)) = <<>>
                   /\ ClaimIndexedFrom(j, ClaimName(j, k)) = <<>>
              ELSE /\ ClaimErrorsAbout(j, ClaimName(j, k)) = <<>>
                   /\ ClaimChunksFrom(j, ClaimName(j, k))
                         = Contents[tasks[j].files[k].content].chunks
                   /\ jobs[j].status = "completed" =>
                         ClaimIndexedFrom(j, ClaimName(j, k))
                            = Contents[tasks[j].files[k].content].chunks
        /\ IF jobs[j].status = "completed"
           THEN Len(jobs[j].errors) = Cardinality(ClaimFailing(j))
           ELSE /\ jobs[j].status = "failed"
                /\ tasks[j].texts # <<>>
                /\ Last(jobs[j].errors) = <<<<>>, "embeddings">>
                /\ Len(jobs[j].errors) = Cardinality(ClaimFailing(j)) + 1
        /\ Cardinality(ClaimFailing(j)) = Len(tasks[j].files) =>
              jobs[j].status = "completed"

\* one job ended 'completed' with an error for each of its two files (one
\* not saved, one rejected by the pdf parser); another ended 'completed'
\* with an error for its unsupported file and the other file's chunks in
\* the collection
C13_Witness ==
    /\ Len(jobs) = 2
    /\ \E j, k \in 1..2 :
          /\ ClaimEnded(j)
          /\ ClaimFailing(j) = {1, 2}
          /\ jobs[j].status = "completed"
          /\ Len(jobs[j].errors) = 2
          /\ ClaimEnded(k)
          /\ ClaimFailing(k) = {1}
          /\ jobs[k].status = "completed"
          /\ Len(jobs[k].errors) = 1
          /\ ClaimIndexedFrom(k, ClaimName(k, 2)) # <<>>

---------------------------------------------------------------------------
(* Status polls during uploads whose handlers and background tasks         *)
(* interleave.                                                             *)
MaxStatusCalls == 2

Readings ==
    <<[filename |-> <<"n","o","t","e","s",".","T","X","T">>, content |-> "notes"],
      [filename |-> <<"p","a","y",".","c","s","v">>, content |-> "pay"]>>

StatusUpload ==
    /\ Calls < MaxStatusCalls
    /\ UploadBegin(Readings, TRUE)

StatusNext ==
    \/ StatusUpload
    \/ Save
    \/ Background
    \/ Status

SpecStatus == Init /\ [][StatusNext]_vars

\* the upload request of job j has returned
ClaimReturned(j) == tasks[j].pc # "saving"

\* this step answers an upload request
ClaimUploadAnswered ==
    /\ resp' # resp
    /\ resp'.of = "upload-documents"
    /\ resp'.status = 200

(* C12: in every state 0 <= processed <= total for every job; no step      *)
(* lowers processed or drops a job; the response of the upload request     *)
(* carries as 'accepted' the number of saved files, which total equals     *)
(* from then on; a status poll changes no job, answers 200 with the job's  *)
(* record for a known job_id and 404 for an unknown one.                   *)
C12_CountersAndStatus ==
    [][/\ \A j \in 1..Len(jobs') :
             /\ 0 <= jobs'[j].processed
             /\ jobs'[j].processed <= jobs'[j].total
       /\ Len(jobs) <= Len(jobs')
       /\ \A j \in 1..Len(jobs) :
             /\ jobs[j].processed <= jobs'[j].processed
             /\ ClaimReturned(j) =>
                   /\ jobs[j].total = Len(tasks[j].saved_paths)
                   /\ jobs'[j].total = jobs[j].total
       /\ ClaimUploadAnswered =>
             /\ resp'.accepted = Len(tasks'[resp'.job_id].saved_paths)
             /\ resp'.accepted = jobs'[resp'.job_id].total
       /\ \A job_id \in 1..(MaxStatusCalls + 2) :
             GetStatus(job_id) =>
                /\ jobs' = jobs
                /\ IF job_id \in 1..Len(jobs)
                   THEN resp'.status = 200 /\ resp'.job = jobs[job_id]
                   ELSE resp'.status = 404]_vars

\* a poll saw a job between its two files, which has since counted the
\* second, beside a job that saved one of the two files it was sent
C12_Witness ==
    /\ Len(jobs) = 2
    /\ resp.of = "ingestion-status"
    /\ resp.status = 200
    /\ resp.job.total = 2
    /\ resp.job.processed = 1
    /\ resp.job.status = "processing"
    /\ jobs[resp.job_id].processed = 2
    /\ \E j \in 1..2 :
          /\ ClaimReturned(j)
          /\ Len(tasks[j].files) = 2
          /\ jobs[j].total = 1
          /\ jobs[j].processed = 1


---------------------------------------------------------------------------
(* Queries before and after an ingestion: a connected service, document    *)
(* and hybrid queries, an upload and its background task.                  *)
MaxStaleCalls == 4

StaleRequests == {Request(Q_document, 1, 2), Request(Q_hybrid_count, 1, 2)}

StaleConnect ==
    /\ Calls < MaxStaleCalls
    /\ ConnectDatabase("hr", TRUE)

StaleQuery ==
    /\ Calls < MaxStaleCalls
    /\ \E r \in StaleRequests : PostQuery(r.user_query, r.page, r.page_size)

StaleUpload ==
    /\ Calls < MaxStaleCalls
    /\ UploadBegin(OneFile, TRUE)

StaleNext ==
    \/ StaleConnect
    \/ StaleQuery
    \/ StaleUpload
    \/ Save
    \/ Background

SpecStale == Init /\ [][StaleNext]_vars

\* the documents in a payload
ClaimDocuments(payload) ==
    IF payload.query_type = "document" THEN payload.results
    ELSE IF payload.query_type = "hybrid" THEN payload.results.documents
    ELSE <<>>

\* the last call repeated a 'document' or 'hybrid' query whose entry was
\* written before chunks were indexed, with no connect call since and less
\* than CacheTtl seconds ago
ClaimStaleRepeat ==
    /\ ClaimEntryStillCached
    /\ classify(call.user_query) \in {"document", "hybrid"}
    /\ Get(call.earlier).indexed < call.indexed

\* the chunks indexed since the entry of the last call's key was written
ClaimNewChunks ==
    {collection[i] : i \in (Get(call.earlier).indexed + 1)..Len(collection)}

(* C14: no step of an upload or of its background task changes the query   *)
(* cache; and a 'document' or 'hybrid' query repeated with the same page    *)
(* and page_size after a job has indexed chunks, while its entry is         *)
(* unexpired and no connect call came between, is a cache hit with the      *)
(* results and sources of the answer given before, none of them a chunk     *)
(* indexed since.                                                           *)
C14_IngestionKeepsCache ==
    /\ [][(tasks' # tasks \/ jobs' # jobs \/ collection' # collection)
             => cache' = cache]_vars
    /\ [](ClaimStaleRepeat =>
             /\ call.hit
             /\ call.ran = <<>>
             /\ call.payload.query_type = Get(call.earlier).payload.query_type
             /\ call.payload.results = Get(call.earlier).payload.results
             /\ call.payload.sources = Get(call.earlier).payload.sources
             /\ \A i \in 1..Len(ClaimDocuments(call.payload)) :
                   ClaimDocuments(call.payload)[i] \notin ClaimNewChunks)

\* a hybrid query answered with no documents before the upload was
\* answered from the cache, again with no documents, after the job had
\* completed and its chunks were in the collection
C14_Witness ==
    /\ ClaimStaleRepeat
    /\ call.hit
    /\ call.payload.query_type = "hybrid"
    /\ ClaimDocuments(call.payload) = <<>>
    /\ Len(jobs) = 1
    /\ jobs[1].status = "completed"
    /\ ClaimNewChunks # {}


---------------------------------------------------------------------------
(* Files of one basename: sent twice in one request under two client       *)
(* paths, and sent by two requests whose handlers and background tasks      *)
(* interleave.                                                             *)
MaxClashCalls == 2

Twice ==
    <<[filename |-> <<"c","v",".","p","d","f">>, content |-> "cv_a"],
      [filename |-> <<"n","e","w","/","c","v",".","p","d","f">>, content |-> "cv_b"]>>

ClashUpload ==
    /\ Calls < MaxClashCalls
    /\ \E files \in {OneFile, Twice} : UploadBegin(files, TRUE)

ClashNext ==
    \/ ClashUpload
    \/ Save
    \/ Background

SpecClash == Init /\ [][ClashNext]_vars

\* the file that the handler of job j is about to save
ClaimSaving(j) == tasks[j].files[tasks[j].next]

\* this step of job j's handler writes a file
ClaimWrites(j) ==
    /\ tasks[j].pc = "saving"
    /\ Len(tasks'[j].saved_paths) = Len(tasks[j].saved_paths) + 1

\* this step of job j's background task reads files
ClaimReads(j) ==
    /\ tasks[j].pc \in {"scheduled", "reading"}
    /\ tasks'[j] # tasks[j]

\* the chunks that this step adds to job j's texts
ClaimTaken(j) ==
    SubSeq(tasks'[j].texts, Len(tasks[j].texts) + 1, Len(tasks'[j].texts))

\* the parser of the file at this path accepts what is on disk
ClaimParses(name) ==
    /\ suffix_of(name) \in SUPPORTED_TYPES
    /\ suffix_of(name) \in {<<"p","d","f">>, <<"d","o","c","x">>} => Contents[disk[name]].readable

(* C15: a file is written at the path of its basename alone, whatever the  *)
(* job and the request, and the write replaces what was there; each write  *)
(* adds a saved path, and 'accepted' and total count the saved paths, not  *)
(* the distinct ones; a background task that reads a path takes the chunks *)
(* of what is on disk at that path then, under its own job_id, and on      *)
(* 'completed' these are what it put in the collection.                    *)
C15_SameBasenameOverwrites ==
    [][\A j \in 1..Len(jobs) :
          /\ ClaimWrites(j) =>
                /\ disk' = (safe_name(ClaimSaving(j).filename) :> ClaimSaving(j).content)
                              @@ disk
                /\ tasks'[j].saved_paths =
                      Append(tasks[j].saved_paths, safe_name(ClaimSaving(j).filename))
          /\ (tasks[j].pc = "saving" /\ jobs'[j].errors # jobs[j].errors) =>
                disk' = disk
          /\ (tasks[j].pc = "saving" /\ tasks'[j].pc # "saving") =>
                /\ resp'.job_id = j
                /\ resp'.accepted = Len(tasks'[j].saved_paths)
                /\ jobs'[j].total = Len(tasks'[j].saved_paths)
          /\ ClaimReads(j) =>
                /\ disk' = disk
                /\ \A i \in 1..Len(ClaimTaken(j)) :
                      /\ ClaimTaken(j)[i].metadata.job_id = j
                      /\ ClaimTaken(j)[i].text \in
                            Range(Contents[disk[ClaimTaken(j)[i].metadata.filename]].chunks)
                /\ \A p \in tasks[j].next..(tasks'[j].next - 1) :
                      ClaimParses(tasks[j].saved_paths[p]) =>
                         \A c \in Range(Contents[disk[tasks[j].saved_paths[p]]].chunks) :
                            \E i \in 1..Len(ClaimTaken(j)) :
                               /\ ClaimTaken(j)[i].text = c
                               /\ ClaimTaken(j)[i].metadata.filename
                                     = tasks[j].saved_paths[p]
                /\ jobs'[j].status = "completed" =>
                      SelectSeq(collection', LAMBDA d : d.metadata.job_id = j)
                         = tasks'[j].texts]_vars

\* the texts of the chunks that job j put in the collection
ClaimIndexedTexts(j) == [i \in 1..Len(IndexedBy(j)) |-> IndexedBy(j)[i].text]

\* one job was sent cv.pdf alone and indexed, under its own job_id, what
\* the other job wrote over it; the other job was sent two files of that
\* basename, counts two saved paths for the one file on disk, and indexed
\* the second file's content twice
C15_Witness ==
    /\ Len(jobs) = 2
    /\ \E j, k \in 1..2 :
          /\ tasks[j].files = OneFile
          /\ jobs[j].status = "completed"
          /\ ClaimIndexedTexts(j) = Contents["cv_b"].chunks
          /\ tasks[k].files = Twice
          /\ jobs[k].status = "completed"
          /\ jobs[k].total = 2
          /\ DOMAIN disk = {<<"c","v",".","p","d","f">>}
          /\ ClaimIndexedTexts(k) = Contents["cv_b"].chunks \o Contents["cv_b"].chunks

===========================================================================
